---- MODULE Spec2Model ----
(***************************************************************************)
(* Model of the admin panel: the axios client with its request/response    *)
(* interceptor pair, the API modules, the query library's retry policy as  *)
(* configured in App.tsx, and the CRUD pages (fetch-list, open-modal,      *)
(* submit-mutation, invalidate-cache).                                     *)
(*                                                                         *)
(* Representation of JavaScript values:                                    *)
(*   - an object is a record; an optional field that is undefined is       *)
(*     absent from the record (JSON.stringify drops undefined fields);     *)
(*   - null/undefined in a slot that holds strings is the string JsNull /  *)
(*     Undefined, in a slot that holds objects it is the record Null;      *)
(*   - a url is the sequence of its path segments.                         *)
(***************************************************************************)
EXTENDS Naturals, Integers, Sequences, FiniteSets, Bags, TLC

VARIABLES
    localStorage,      \* window.localStorage: key -> string
    location,          \* window.location.href
    apiClient,         \* the axios instance: the client module that was
                       \* built, the environment it read, its baseURL
    allVariants,       \* the ['all-variants'] query of RetailerProductsPage
    ordersPage,        \* OrdersPage / OrderDetailPage: the status filter, the
                       \* ['orders', filter] queries, the order that is viewed
    table,             \* a DataTable: its props, what it renders, what it
                       \* rendered before its parent last changed a prop
    inflight,          \* bag of the query library's running queries and mutations
    last,              \* what the most recent step did (observation of the step)
    since401,          \* history: a 401 was handled and no token written since
    opener,            \* history: the button that opened the open modal,
                       \* and whether an input of its form was changed since
    edits,             \* how many times the user changed a form field
    page,              \* the page component that is mounted
    modalOpen,         \* CategoriesPage / RetailersPage / RetailerProductsPage state
    editing,
    formData,
    selectedRetailer,  \* RetailerProductsPage
    productModalOpen,  \* ProductsPage state
    variantModalOpen,
    editingProduct,
    selectedProduct,
    editingVariant,
    productForm,
    variantForm

clientVars == <<localStorage, location, inflight, last, since401>>
pageVars == <<page, modalOpen, editing, formData, selectedRetailer,
              productModalOpen, variantModalOpen, editingProduct,
              selectedProduct, editingVariant, productForm, variantForm,
              opener, edits>>
vars == <<apiClient, allVariants, table, ordersPage, localStorage, location, inflight, last, since401,
          page, modalOpen, editing, formData, selectedRetailer,
          productModalOpen, variantModalOpen, editingProduct,
          selectedProduct, editingVariant, productForm, variantForm,
          opener, edits>>

---------------------------------------------------------------------------
(* Bounds of the model *)

\* at most this many queries/mutations are running at once
MaxInFlight == 1

\* the user changes at most this many form fields
MaxEdits == 1

\* the user switches between the first so many options of the orders filter
MaxFilters == 2

\* a DataTable gets at most this many data items, and this many columns
MaxRows == 2
MaxCols == 2

---------------------------------------------------------------------------
(* JavaScript values *)

\* the orders pages are not followed
NoOrders == [mounted |-> "none"]

\* no DataTable is followed
NoTable == [rendered |-> FALSE]

JsNull == "<null>"
Undefined == "<undefined>"
Null == [null |-> TRUE]

Has(obj, field) == field \in DOMAIN obj

\* s is a string or JsNull/Undefined: JavaScript truthiness of it
Truthy(s) == s \notin {JsNull, Undefined, ""}

\* obj[field] || ''
OrEmpty(obj, field) == IF Has(obj, field) /\ Truthy(obj[field]) THEN obj[field] ELSE ""

\* obj?.id
OptId(obj) == IF obj = Null THEN Undefined ELSE obj.id

---------------------------------------------------------------------------
(* Server data the pages show (ids and rows of the fetched lists) *)

CategoryIds == {"c1", "c2"}
ProductIds == {"p1", "p2"}
VariantIds == {"v1", "v2"}
RetailerIds == {"r1", "r2"}
MappingIds == {"m1", "m2"}
OrderIds == {"o1"}
AllIds == CategoryIds \cup ProductIds \cup VariantIds \cup RetailerIds
              \cup MappingIds \cup OrderIds

\* values of the orders page's status filter that the harness passes on
OrderFilters == {"pending"}

\* tokens an external login may store under 'admin_token'
Tokens == {"", "tokA"}

---------------------------------------------------------------------------
(* api/client.ts: the axios instance *)

EmptyObj == [x \in {} |-> ""]

DefaultHeaders == ("Content-Type" :> "application/json")

\* strings the base URL is computed from, as sequences of characters
Chars(s) ==
    CASE s = "" -> <<>>
      [] s = "http" -> <<"h", "t", "t", "p">>
      [] s = "https://" -> <<"h", "t", "t", "p", "s", ":", "/", "/">>
      [] s = "/api/admin" -> <<"/", "a", "p", "i", "/", "a", "d", "m", "i", "n">>
      [] s = "a.io" -> <<"a", ".", "i", "o">>
      [] s = "http://a" -> <<"h", "t", "t", "p", ":", "/", "/", "a">>
      [] s = "/v2" -> <<"/", "v", "2">>

\* s.startsWith(prefix)
startsWith(s, prefix) ==
    Len(s) >= Len(prefix) /\ SubSeq(s, 1, Len(prefix)) = prefix

\* import.meta.env: VITE_API_URL is unset, or set to one of these
Envs ==
    {EmptyObj} \cup
    {[VITE_API_URL |-> Chars(s)] : s \in {"", "/api/admin", "a.io", "http://a", "/v2"}}

\* import.meta.env.VITE_API_URL || '/api/admin'
EnvOrDefault(e) ==
    IF Has(e, "VITE_API_URL") /\ e.VITE_API_URL # <<>>
    THEN e.VITE_API_URL ELSE Chars("/api/admin")

\* the two client modules
ClientModules == {"client", "client-https"}

BaseURLAlwaysHttps(module, e) == Chars("https://") \o EnvOrDefault(e)

\* baseURL as each client module computes it for axios.create
BaseURL(module, e) ==
    LET apiUrl == EnvOrDefault(e) IN
    IF module = "client-https" /\ apiUrl # Chars("/api/admin")
                               /\ ~startsWith(apiUrl, Chars("http"))
    THEN Chars("https://") \o apiUrl
    ELSE apiUrl

\* axios.create({ baseURL, headers })
axios_create(module, e) ==
    [module |-> module, env |-> e, baseURL |-> BaseURL(module, e)]

\* a request config merged with the instance's defaults
WithDefaults(config) == [baseURL |-> apiClient.baseURL] @@ config

\* apiClient.get(url, { params }): params undefined leaves the field out
apiClient_get(url, params) ==
    [method |-> "GET", url |-> url, headers |-> DefaultHeaders]
        @@ (IF params = EmptyObj THEN EmptyObj ELSE [params |-> params])

apiClient_post(url, data) ==
    [method |-> "POST", url |-> url, headers |-> DefaultHeaders, data |-> data]

apiClient_patch(url, data) ==
    [method |-> "PATCH", url |-> url, headers |-> DefaultHeaders, data |-> data]

\* localStorage.getItem(key): null when the key is absent
getItem(storage, key) == IF key \in DOMAIN storage THEN storage[key] ELSE JsNull

\* localStorage.removeItem(key)
removeItem(storage, key) == [k \in DOMAIN storage \ {key} |-> storage[k]]

\* localStorage.setItem(key, value), done by whatever logs the admin in
setItem(storage, key, value) == (key :> value) @@ storage

Bearer(token) == "Bearer " \o token

RequestInterceptorNoGuard(config, storage) ==
    [config EXCEPT !.headers =
        ("Authorization" :> Bearer(getItem(storage, "admin_token"))) @@ @]

RequestInterceptorNullOnly(config, storage) ==
    LET token == getItem(storage, "admin_token") IN
    IF token # JsNull
    THEN [config EXCEPT !.headers = ("Authorization" :> Bearer(token)) @@ @]
    ELSE config

\* apiClient.interceptors.request.use((config) => ...)
RequestInterceptor(config, storage) ==
    LET token == getItem(storage, "admin_token") IN
    IF Truthy(token)
    THEN [config EXCEPT !.headers = ("Authorization" :> Bearer(token)) @@ @]
    ELSE config

\* what the server (or the network) may answer
ErrorStatuses == {401, 403, 500}
HttpErrors == {[response |-> [status |-> s]] : s \in ErrorStatuses}
NetworkError == [message |-> "Network Error"]
Errors == HttpErrors \cup {NetworkError}
OkResponse == [status |-> 200]

\* error.response?.status === 401
Is401(error) == Has(error, "response") /\ error.response.status = 401

\* apiClient.interceptors.response.use((response) => response, ...)
OnFulfilled(response) == [state |-> "fulfilled", value |-> response]

OnRejectedStorageAny4xx(error, storage) ==
    IF Has(error, "response") /\ error.response.status \in {401, 403}
    THEN removeItem(storage, "admin_token") ELSE storage

\* the error interceptor: its effect on local storage, on the location, and
\* the promise it returns
OnRejectedStorage(error, storage) ==
    IF Is401(error) THEN removeItem(storage, "admin_token") ELSE storage

OnRejectedLocationKeep(error, href) == href

OnRejectedLocation(error, href) ==
    IF Is401(error) THEN "/login" ELSE href

OnRejectedSwallow401(error) ==
    IF Is401(error) THEN [state |-> "fulfilled", value |-> error]
    ELSE [state |-> "rejected", reason |-> error]

OnRejected(error) == [state |-> "rejected", reason |-> error]

---------------------------------------------------------------------------
(* api/categories.ts, api/products.ts, api/retailers.ts, api/orders.ts *)

categoriesApi_list(parentId) ==
    apiClient_get(<<"categories">>,
        IF Truthy(parentId) THEN [parent_id |-> parentId] ELSE EmptyObj)

categoriesApi_create(data) == apiClient_post(<<"categories">>, data)

categoriesApi_updatePut(id, data) ==
    [method |-> "PUT", url |-> <<"categories", id>>,
     headers |-> DefaultHeaders, data |-> data]

categoriesApi_update(id, data) == apiClient_patch(<<"categories", id>>, data)

productsApi_list(categoryId) ==
    apiClient_get(<<"products">>,
        IF Truthy(categoryId) THEN [category_id |-> categoryId] ELSE EmptyObj)

productsApi_create(data) == apiClient_post(<<"products">>, data)

productsApi_update(id, data) == apiClient_patch(<<"products", id>>, data)

productsApi_listVariants(productId) ==
    apiClient_get(<<"products", productId, "variants">>, EmptyObj)

productsApi_createVariant(productId, data) ==
    apiClient_post(<<"products", productId, "variants">>, data)

productsApi_updateVariant(variantId, data) ==
    apiClient_patch(<<"products", "variants", variantId>>, data)

retailersApi_list == apiClient_get(<<"retailers">>, EmptyObj)

retailersApi_create(data) == apiClient_post(<<"retailers">>, data)

retailersApi_update(id, data) == apiClient_patch(<<"retailers", id>>, data)

retailersApi_listProducts(retailerId) ==
    apiClient_get(<<"retailers", retailerId, "products">>, EmptyObj)

retailersApi_addProduct(retailerId, data) ==
    apiClient_post(<<"retailers", retailerId, "products">>, data)

retailersApi_updateProduct(mappingId, data) ==
    apiClient_patch(<<"retailer-products", mappingId>>, data)

ordersApi_list(params) == apiClient_get(<<"orders">>, params)

ordersApi_get(id) == apiClient_get(<<"orders", id>>, EmptyObj)

---------------------------------------------------------------------------
(* App.tsx: the query client's retry policy.  A failed attempt of a query  *)
(* is re-run `retry` times before the query is in its error state; the     *)
(* defaults given there are for queries only, a mutation is not retried.   *)

QueryRetry == 1

RetriesAll(kind) == QueryRetry

Retries(kind) == IF kind = "query" THEN QueryRetry ELSE 0

\* what of a request matters once it is sent: method, url, params, headers
Envelope(config) == [k \in DOMAIN config \ {"data"} |-> config[k]]

\* a running query or mutation: the request of its current attempt (as the
\* request interceptor left it), the hook it belongs to, the attempts that
\* failed so far, whether it waits for its retry timer, and the render whose
\* callbacks it will call: "live" while it is the hook's current mutation
\* (the hook hands it the callbacks of every new render), otherwise the
\* selection the last render it saw had captured
Task(config, kind, hook) ==
    [config |-> Envelope(config), kind |-> kind, hook |-> hook,
     failureCount |-> 0, backoff |-> FALSE, closure |-> "live"]

Running == BagToSet(inflight)

Pending == {t \in Running : ~t.backoff}

Remove(t) == inflight (-) SetToBag({t})

Add(bag, t) == bag (+) SetToBag({t})

\* the config a query or mutation function hands to axios, before interceptors
BareConfig(config) == [config EXCEPT !.headers = DefaultHeaders]

---------------------------------------------------------------------------
(* Initial component state: the useState(...) initial values *)

CategoryFormDefault == [name |-> "", description |-> "", parent_id |-> ""]

RetailerFormDefault ==
    [name |-> "", phone |-> "", email |-> "", address |-> "",
     location_lat |-> "", location_lng |-> "", is_active |-> TRUE]

MappingFormDefault ==
    [product_variant_id |-> "", price |-> "", stock_quantity |-> "0",
     is_available |-> TRUE]

ProductFormDefault ==
    [name |-> "", description |-> "", manufacturer |-> "", category_id |-> "",
     is_active |-> TRUE]

VariantFormDefault ==
    [sku |-> "", name |-> "", unit_size |-> "", unit_type |-> "",
     base_price |-> "", is_active |-> TRUE]

Pages == {"categories", "retailers", "retailer-products", "products"}

InitialFormData(p) ==
    CASE p = "categories" -> CategoryFormDefault
      [] p = "retailers" -> RetailerFormDefault
      [] p = "retailer-products" -> MappingFormDefault
      [] OTHER -> EmptyObj

\* the mounted page right after its first render
Mounted(p) ==
    /\ page = p
    /\ modalOpen = FALSE
    /\ editing = Null
    /\ formData = InitialFormData(p)
    /\ selectedRetailer = Null
    /\ productModalOpen = FALSE
    /\ variantModalOpen = FALSE
    /\ editingProduct = Null
    /\ selectedProduct = Null
    /\ editingVariant = Null
    /\ productForm = ProductFormDefault
    /\ variantForm = VariantFormDefault
    /\ opener = [via |-> "none"]

---------------------------------------------------------------------------
(* The client layer: any API function called by a query or a mutation *)

\* bodies a caller may post
HarnessData == {[name |-> "x"]}

QueryConfigs ==
    {categoriesApi_list(a) : a \in {Undefined} \cup CategoryIds}
    \cup {productsApi_list(a) : a \in {Undefined} \cup CategoryIds}
    \cup {productsApi_listVariants(a) : a \in ProductIds}
    \cup {retailersApi_list}
    \cup {retailersApi_listProducts(a) : a \in RetailerIds}
    \cup {ordersApi_list(a) : a \in {EmptyObj} \cup {[status |-> f] : f \in OrderFilters}}
    \cup {ordersApi_get(a) : a \in OrderIds}

MutationConfigs ==
    UNION {
        {categoriesApi_create(d)} \cup {categoriesApi_update(a, d) : a \in CategoryIds}
        \cup {productsApi_create(d)} \cup {productsApi_update(a, d) : a \in ProductIds}
        \cup {productsApi_createVariant(a, d) : a \in ProductIds}
        \cup {productsApi_updateVariant(a, d) : a \in VariantIds}
        \cup {retailersApi_create(d)} \cup {retailersApi_update(a, d) : a \in RetailerIds}
        \cup {retailersApi_addProduct(a, d) : a \in RetailerIds}
        \cup {retailersApi_updateProduct(a, d) : a \in MappingIds}
        : d \in HarnessData }

\* axios sends a request: the request interceptor runs at this moment
Send(config, kind, hook) ==
    LET sent == RequestInterceptor(WithDefaults(config), localStorage) IN
    /\ BagCardinality(inflight) < MaxInFlight
    /\ inflight' = Add(inflight, Task(sent, kind, hook))
    /\ UNCHANGED <<apiClient, allVariants, table, ordersPage>>
    /\ last' = [op |-> "send", config |-> sent]

\* a query function runs (useQuery's queryFn)
RunQuery ==
    /\ \E c \in QueryConfigs : Send(c, "query", "useQuery")
    /\ UNCHANGED <<localStorage, location, since401>>
    /\ UNCHANGED pageVars

\* a mutation function runs (useMutation's mutationFn)
RunMutation ==
    /\ \E c \in MutationConfigs : Send(c, "mutation", "useMutation")
    /\ UNCHANGED <<localStorage, location, since401>>
    /\ UNCHANGED pageVars

\* something outside the repository stores a token (the login is a stub)
StoreToken ==
    /\ \E tok \in Tokens :
          localStorage' = setItem(localStorage, "admin_token", tok)
    /\ since401' = FALSE
    /\ UNCHANGED <<apiClient, allVariants, table, ordersPage>>
    /\ last' = [op |-> "setItem"]
    /\ UNCHANGED <<location, inflight>>
    /\ UNCHANGED pageVars

\* the promise of task t settles as the response interceptor returns it and
\* the query library reacts: success, error, or a retry after its delay
Settled(t, raw, promise, calls) ==
    LET seen == [op |-> "settle", raw |-> raw, promise |-> promise,
                 kind |-> t.kind, hook |-> t.hook, config |-> t.config,
                 attempts |-> t.failureCount + 1] IN
    IF promise.state = "fulfilled"
    THEN /\ inflight' = Remove(t)
         /\ UNCHANGED <<apiClient, allVariants, table, ordersPage>>
         /\ last' = [status |-> "success"] @@ calls @@ seen
    ELSE IF t.failureCount < Retries(t.kind)
    THEN /\ inflight' = Add(Remove(t),
                [t EXCEPT !.failureCount = @ + 1, !.backoff = TRUE])
         /\ UNCHANGED <<apiClient, allVariants, table, ordersPage>>
         /\ last' = [status |-> "retrying"] @@ seen
    ELSE /\ inflight' = Remove(t)
         /\ UNCHANGED <<apiClient, allVariants, table, ordersPage>>
         /\ last' = [status |-> "error"] @@ seen

\* the server answers 2xx; calls: what the hook's onSuccess called
ResponseOk(t, calls) ==
    /\ Settled(t, OkResponse, OnFulfilled(OkResponse), calls)
    /\ UNCHANGED <<localStorage, location, since401>>

\* the server answers with an error status, or the network fails
ResponseError(t, error) ==
    /\ localStorage' = OnRejectedStorage(error, localStorage)
    /\ location' = OnRejectedLocation(error, location)
    /\ since401' = (since401 \/ Is401(error))
    /\ Settled(t, error, OnRejected(error), EmptyObj)

\* the retry timer of a failed query fires: its query function runs again
RetryTimer ==
    /\ \E t \in Running :
          /\ t.backoff
          /\ LET again == [t EXCEPT
                     !.config = RequestInterceptor(BareConfig(t.config), localStorage),
                     !.backoff = FALSE] IN
             /\ inflight' = Add(Remove(t), again)
             /\ UNCHANGED <<apiClient, allVariants, table, ordersPage>>
             /\ last' = [op |-> "send", config |-> again.config]
    /\ UNCHANGED <<localStorage, location, since401>>
    /\ UNCHANGED pageVars

ClientOk ==
    /\ \E t \in Pending :
          t.hook \in {"useQuery", "useMutation"} /\ ResponseOk(t, EmptyObj)
    /\ UNCHANGED pageVars

ClientError ==
    /\ \E t \in Pending, e \in Errors :
          t.hook \in {"useQuery", "useMutation"} /\ ResponseError(t, e)
    /\ UNCHANGED pageVars

InitClient ==
    /\ localStorage \in {EmptyObj} \cup {[admin_token |-> tok] : tok \in Tokens}
    /\ location = "/"
    /\ inflight = EmptyBag
    /\ last = [op |-> "load"]
    /\ since401 = FALSE
    /\ edits = 0
    /\ Mounted("dashboard")
    /\ apiClient = axios_create("client", EmptyObj)
    /\ allVariants = [status |-> "idle"]
    /\ ordersPage = NoOrders
    /\ table = NoTable

NextClient ==
    \/ RunQuery
    \/ RunMutation
    \/ StoreToken
    \/ ClientOk
    \/ ClientError
    \/ RetryTimer

SpecClient == InitClient /\ [][NextClient]_vars

\* the same layer, for either client module built in any environment
InitBuilt ==
    /\ localStorage \in {EmptyObj, [admin_token |-> "tokA"]}
    /\ location = "/"
    /\ inflight = EmptyBag
    /\ last = [op |-> "load"]
    /\ since401 = FALSE
    /\ edits = 0
    /\ Mounted("dashboard")
    /\ \E module \in ClientModules, e \in Envs :
          apiClient = axios_create(module, e)
    /\ allVariants = [status |-> "idle"]
    /\ ordersPage = NoOrders
    /\ table = NoTable

SpecBuilt == InitBuilt /\ [][NextClient]_vars

---------------------------------------------------------------------------
(* Rows the server returns for the lists (types/index.ts).  One row of each *)
(* type has only its required fields, the other has every optional field.  *)

Categories ==
    { [id |-> "c1", name |-> "x", description |-> ""],
      [id |-> "c2", name |-> "x", description |-> "x", parent_id |-> "c1"] }

Products ==
    { [id |-> "p1", name |-> "x", is_active |-> TRUE],
      [id |-> "p2", name |-> "x", description |-> "x", manufacturer |-> "x",
       category_id |-> "c1", is_active |-> FALSE] }

Variants ==
    { [id |-> "v1", product_id |-> "p1", sku |-> "x", is_active |-> TRUE],
      [id |-> "v2", product_id |-> "p2", sku |-> "x", name |-> "x",
       unit_size |-> "x", unit_type |-> "x", base_price |-> 5,
       is_active |-> FALSE] }

Retailers ==
    { [id |-> "r1", name |-> "x", is_active |-> TRUE],
      [id |-> "r2", name |-> "x", phone |-> "x", email |-> "a@b.c",
       address |-> "x", location_lat |-> 5, location_lng |-> 0,
       is_active |-> FALSE] }

Mappings ==
    { [id |-> "m1", retailer_id |-> "r1", product_variant_id |-> "v1",
       price |-> 5, stock_quantity |-> 0, is_available |-> TRUE],
      [id |-> "m2", retailer_id |-> "r2", product_variant_id |-> "v2",
       price |-> 0, stock_quantity |-> 5, is_available |-> FALSE] }

\* the rows of the variants / mappings list of one product / retailer
VariantsOf(productId) == {v \in Variants : v.product_id = productId}
MappingsOf(retailerId) == {m \in Mappings : m.retailer_id = retailerId}

---------------------------------------------------------------------------
(* Number <-> string conversions, on the numbers the rows and inputs hold *)

NaN == "NaN"

\* n.toString()
toString(n) == ToString(n)

\* parseFloat(s), parseInt(s)
parseFloat(s) == CASE s = "0" -> 0 [] s = "5" -> 5 [] OTHER -> NaN
parseInt(s) == CASE s = "0" -> 0 [] s = "5" -> 5 [] OTHER -> NaN

NumOrEmptyFalsyZero(obj, field) ==
    IF Has(obj, field) /\ obj[field] # 0 THEN toString(obj[field]) ELSE ""

\* obj[field]?.toString() || ''
NumOrEmpty(obj, field) == IF Has(obj, field) THEN toString(obj[field]) ELSE ""

\* what the user can put into an input
TextValues == {"", "x"}
EmailValues == {"", "a@b.c", "abc"}
NumberValues == {"", "5"}

---------------------------------------------------------------------------
(* openEdit: the form an item is edited in *)

CategoryEditForm(category) ==
    [name |-> category.name,
     description |-> OrEmpty(category, "description"),
     parent_id |-> OrEmpty(category, "parent_id")]

RetailerEditForm(retailer) ==
    [name |-> retailer.name,
     phone |-> OrEmpty(retailer, "phone"),
     email |-> OrEmpty(retailer, "email"),
     address |-> OrEmpty(retailer, "address"),
     location_lat |-> NumOrEmpty(retailer, "location_lat"),
     location_lng |-> NumOrEmpty(retailer, "location_lng"),
     is_active |-> retailer.is_active]

MappingEditForm(mapping) ==
    [product_variant_id |-> mapping.product_variant_id,
     price |-> toString(mapping.price),
     stock_quantity |-> toString(mapping.stock_quantity),
     is_available |-> mapping.is_available]

ProductEditForm(product) ==
    [name |-> product.name,
     description |-> OrEmpty(product, "description"),
     manufacturer |-> OrEmpty(product, "manufacturer"),
     category_id |-> OrEmpty(product, "category_id"),
     is_active |-> product.is_active]

VariantEditForm(variant) ==
    [sku |-> variant.sku,
     name |-> OrEmpty(variant, "name"),
     unit_size |-> OrEmpty(variant, "unit_size"),
     unit_type |-> OrEmpty(variant, "unit_type"),
     base_price |-> NumOrEmpty(variant, "base_price"),
     is_active |-> variant.is_active]

---------------------------------------------------------------------------
(* handleSubmit: the data object built from the form.  A field whose value *)
(* is undefined is left out, as JSON.stringify does.                       *)

\* the fields of form among optional whose value is not ''
Filled(form, optional) == {f \in optional : form[f] # ""}

CategoryDataAllFields(form) ==
    [name |-> form.name, description |-> form.description,
     parent_id |-> form.parent_id]

CategoryData(form) ==
    [f \in {"name"} \cup Filled(form, {"description", "parent_id"}) |-> form[f]]

RetailerData(form) ==
    [f \in {"name", "is_active"}
           \cup Filled(form, {"phone", "email", "address",
                              "location_lat", "location_lng"}) |->
        IF f \in {"location_lat", "location_lng"} THEN parseFloat(form[f])
        ELSE form[f]]

MappingData(form) ==
    [product_variant_id |-> form.product_variant_id,
     price |-> parseFloat(form.price),
     stock_quantity |-> parseInt(form.stock_quantity),
     is_available |-> form.is_available]

ProductData(form) ==
    [f \in {"name", "is_active"}
           \cup Filled(form, {"description", "manufacturer", "category_id"}) |->
        form[f]]

VariantData(form) ==
    [f \in {"sku", "is_active"}
           \cup Filled(form, {"name", "unit_size", "unit_type", "base_price"}) |->
        IF f = "base_price" THEN parseFloat(form[f]) ELSE form[f]]

---------------------------------------------------------------------------
(* handleSubmit: the mutation a submit starts, by hook and request *)

CategoriesSubmitAlwaysCreate(ed, form) ==
    [hook |-> "CategoriesPage.createMutation",
     config |-> categoriesApi_create(CategoryData(form))]

CategoriesSubmit(ed, form) ==
    IF ed # Null
    THEN [hook |-> "CategoriesPage.updateMutation",
          config |-> categoriesApi_update(ed.id, CategoryData(form))]
    ELSE [hook |-> "CategoriesPage.createMutation",
          config |-> categoriesApi_create(CategoryData(form))]

RetailersSubmit(ed, form) ==
    IF ed # Null
    THEN [hook |-> "RetailersPage.updateMutation",
          config |-> retailersApi_update(ed.id, RetailerData(form))]
    ELSE [hook |-> "RetailersPage.createMutation",
          config |-> retailersApi_create(RetailerData(form))]

\* selectedRetailer!.id of null throws before anything is sent
MappingSubmit(ed, form, selected) ==
    IF ed # Null
    THEN [hook |-> "RetailerProductsPage.updateProductMutation",
          config |-> retailersApi_updateProduct(ed.id, MappingData(form))]
    ELSE IF selected = Null THEN [throws |-> "TypeError"]
    ELSE [hook |-> "RetailerProductsPage.addProductMutation",
          config |-> retailersApi_addProduct(selected.id, MappingData(form))]

ProductSubmit(ed, form) ==
    IF ed # Null
    THEN [hook |-> "ProductsPage.updateProductMutation",
          config |-> productsApi_update(ed.id, ProductData(form))]
    ELSE [hook |-> "ProductsPage.createProductMutation",
          config |-> productsApi_create(ProductData(form))]

\* selectedProduct!.id of null throws before anything is sent
VariantSubmit(ed, form, selected) ==
    IF ed # Null
    THEN [hook |-> "ProductsPage.updateVariantMutation",
          config |-> productsApi_updateVariant(ed.id, VariantData(form))]
    ELSE IF selected = Null THEN [throws |-> "TypeError"]
    ELSE [hook |-> "ProductsPage.createVariantMutation",
          config |-> productsApi_createVariant(selected.id, VariantData(form))]

---------------------------------------------------------------------------
(* onSuccess of the mutation hooks *)

CategoryHooks == {"CategoriesPage.createMutation", "CategoriesPage.updateMutation"}
RetailerHooks == {"RetailersPage.createMutation", "RetailersPage.updateMutation"}
MappingHooks == {"RetailerProductsPage.addProductMutation",
                 "RetailerProductsPage.updateProductMutation"}
ProductHooks == {"ProductsPage.createProductMutation",
                 "ProductsPage.updateProductMutation"}
VariantHooks == {"ProductsPage.createVariantMutation",
                 "ProductsPage.updateVariantMutation"}
PageHooks == CategoryHooks \cup RetailerHooks \cup MappingHooks
                 \cup ProductHooks \cup VariantHooks

\* selectedProduct?.id / selectedRetailer?.id as the current render has it
Selection ==
    IF page = "products" THEN OptId(selectedProduct) ELSE OptId(selectedRetailer)

\* the selection the onSuccess of task t reads
SelectionOf(t) == IF t.closure = "live" THEN Selection ELSE t.closure

QueryKeyProductsForAll(hook, selected) == <<"products">>

\* the queryKey onSuccess hands to queryClient.invalidateQueries
QueryKey(hook, selected) ==
    CASE hook \in CategoryHooks -> <<"categories">>
      [] hook \in RetailerHooks -> <<"retailers">>
      [] hook \in ProductHooks -> <<"products">>
      [] hook \in VariantHooks -> <<"variants", selected>>
      [] hook \in MappingHooks -> <<"retailer-products", selected>>

\* the keys of the queries the pages keep in the query client's cache
QueryKeys ==
    {<<"categories">>, <<"products">>, <<"retailers">>, <<"all-variants">>}
    \cup {<<"variants", id>> : id \in ProductIds \cup {Undefined}}
    \cup {<<"retailer-products", id>> : id \in RetailerIds \cup {Undefined}}
    \cup {<<"orders", status>> : status \in OrderFilters}
    \cup {<<"order", id>> : id \in OrderIds}

partialMatchFamily(key, queryKey) == key[1] = queryKey[1]

\* the query client's filter: queryKey is a prefix of the query's key
partialMatchKey(key, queryKey) ==
    /\ Len(queryKey) <= Len(key)
    /\ \A i \in 1..Len(queryKey) : key[i] = queryKey[i]

\* the cached queries invalidateQueries({ queryKey }) marks stale
Invalidated(queryKey) == {key \in QueryKeys : partialMatchKey(key, queryKey)}

\* the state updates of onSuccess: closeModal(), or set...ModalOpen(false)
OnSuccess(hook) ==
    IF hook \in ProductHooks
    THEN /\ productModalOpen' = FALSE
         /\ UNCHANGED <<modalOpen, editing, variantModalOpen>>
    ELSE IF hook \in VariantHooks
    THEN /\ variantModalOpen' = FALSE
         /\ UNCHANGED <<modalOpen, editing, productModalOpen>>
    ELSE /\ modalOpen' = FALSE
         /\ editing' = Null
         /\ UNCHANGED <<productModalOpen, variantModalOpen>>

\* a running mutation of the hook stops being the hook's current mutation:
\* it keeps the callbacks of the render it saw last, and with them the
\* selection the onSuccess of a variant or mapping hook reads
Detach(t, hook) ==
    IF t.hook = hook /\ t.closure = "live" /\ hook \in VariantHooks \cup MappingHooks
    THEN [t EXCEPT !.closure = Selection] ELSE t

\* how many mutations the model lets run at once: one more on the pages
\* of the categories and the retailers, whose form is submitted again while
\* its request runs
Capacity ==
    IF page \in {"categories", "retailers"} THEN MaxInFlight + 1
    ELSE MaxInFlight

MutateReplacing(m) ==
    LET config == RequestInterceptor(WithDefaults(m.config), localStorage)
        others == BagOfAll(LAMBDA t : t,
                     [t \in {x \in BagToSet(inflight) : x.hook # m.hook}
                        |-> inflight[t]]) IN
    /\ BagCardinality(inflight) < Capacity
    /\ inflight' = Add(others, Task(config, "mutation", m.hook))
    /\ UNCHANGED <<apiClient, allVariants, table, ordersPage>>
    /\ last' = [op |-> "submit", hook |-> m.hook, config |-> config]

\* mutation.mutate(...): the mutation function runs and axios sends
Mutate(m) ==
    LET config == RequestInterceptor(WithDefaults(m.config), localStorage)
        older == BagOfAll(LAMBDA t : Detach(t, m.hook), inflight) IN
    /\ BagCardinality(inflight) < Capacity
    /\ inflight' = Add(older, Task(config, "mutation", m.hook))
    /\ UNCHANGED <<apiClient, allVariants, table, ordersPage>>
    /\ last' = [op |-> "submit", hook |-> m.hook, config |-> config]

\* a submit: the mutation starts, or the handler throws
Submitted(m) ==
    /\ IF Has(m, "throws")
       THEN /\ inflight' = inflight
            /\ UNCHANGED <<apiClient, allVariants, table, ordersPage>>
            /\ last' = [op |-> "submit", throws |-> m.throws]
       ELSE Mutate(m)
    /\ UNCHANGED <<localStorage, location, since401>>
    /\ UNCHANGED pageVars

---------------------------------------------------------------------------
(* components/common/Modal: its children are rendered while isOpen, and    *)
(* the open modal covers the page, whose buttons cannot be clicked then    *)

ModalIsOpen == modalOpen \/ productModalOpen \/ variantModalOpen

PageClickable == ~ModalIsOpen

\* the history of the modal that was open ends when no modal is open
Closed ==
    /\ opener' = IF ModalIsOpen' THEN opener ELSE [via |-> "none"]
    /\ edits' = edits

\* the pages with a list that is fetched for the selected row
SelectionPages == {"products", "retailer-products"}

\* selectedProduct / selectedRetailer as the current render has it
Selected == IF page = "products" THEN selectedProduct ELSE selectedRetailer

EnabledAlways(selected) == TRUE

\* enabled: !!selectedProduct / !!selectedRetailer
Enabled(selected) == selected # Null

\* useQuery(['variants', selectedProduct?.id]) and
\* useQuery(['retailer-products', selectedRetailer?.id]) as a render with
\* this selection has them; selected!.id of null throws in the query function
ListQuery(p, selected) ==
    [queryKey |-> <<(IF p = "products" THEN "variants" ELSE "retailer-products"),
                    OptId(selected)>>,
     queryFn |-> IF selected = Null THEN [throws |-> "TypeError"]
                 ELSE IF p = "products"
                      THEN productsApi_listVariants(selected.id)
                      ELSE retailersApi_listProducts(selected.id),
     enabled |-> Enabled(selected)]

\* what running the query function of an enabled query starts
Fetched(q) == IF q.enabled THEN {q.queryFn} ELSE {}

\* the render after the step: the list query of a selection that changed is
\* fetched, unless it is enabled: false or its cached data is still fresh
\* (staleTime)
Rerendered ==
    IF page' \in SelectionPages /\ Selected' # Selected
    THEN {{}, Fetched(ListQuery(page', Selected'))}
    ELSE {{}}

\* queryClient.invalidateQueries({ queryKey }): the list query of the
\* current selection is fetched again when the key matches it and it is
\* not enabled: false
Refetched(queryKey) ==
    IF page \in SelectionPages
    THEN LET q == ListQuery(page, Selected) IN
         IF q.queryKey = queryKey THEN Fetched(q) ELSE {}
    ELSE {}

\* a click or keystroke: it starts no mutation
Ui == /\ UNCHANGED <<apiClient, allVariants, table, ordersPage>>
      /\ UNCHANGED <<localStorage, location, inflight, since401, page>>
      /\ \E fetches \in Rerendered : last' = [op |-> "ui", fetches |-> fetches]

---------------------------------------------------------------------------
(* CategoriesPage, RetailersPage, RetailerProductsPage: one modal, one form *)

FormPages == {"categories", "retailers", "retailer-products"}

productsUnchanged ==
    UNCHANGED <<productModalOpen, variantModalOpen, editingProduct,
                selectedProduct, editingVariant, productForm, variantForm>>

\* the rows of the table that have an Edit button
Rows ==
    CASE page = "categories" -> Categories
      [] page = "retailers" -> Retailers
      [] page = "retailer-products" ->
            IF selectedRetailer = Null THEN {}
            ELSE MappingsOf(selectedRetailer.id)
      [] OTHER -> {}

EditForm(item) ==
    CASE page = "categories" -> CategoryEditForm(item)
      [] page = "retailers" -> RetailerEditForm(item)
      [] page = "retailer-products" -> MappingEditForm(item)

\* Add button (RetailerProductsPage shows it once a retailer is selected)
openCreate ==
    /\ page \in FormPages
    /\ PageClickable
    /\ page = "retailer-products" => selectedRetailer # Null
    /\ editing' = Null
    /\ formData' = InitialFormData(page)
    /\ modalOpen' = TRUE
    /\ opener' = [via |-> "add", touched |-> FALSE]
    /\ edits' = edits
    /\ UNCHANGED selectedRetailer
    /\ productsUnchanged
    /\ Ui

\* Edit button of a row
openEdit ==
    /\ page \in FormPages
    /\ PageClickable
    /\ \E item \in Rows :
          /\ editing' = item
          /\ formData' = EditForm(item)
          /\ opener' = [via |-> "edit", id |-> item.id, touched |-> FALSE]
    /\ modalOpen' = TRUE
    /\ edits' = edits
    /\ UNCHANGED selectedRetailer
    /\ productsUnchanged
    /\ Ui

\* Cancel button, or the modal's onClose
closeModal ==
    /\ page \in FormPages
    /\ modalOpen
    /\ modalOpen' = FALSE
    /\ editing' = Null
    /\ UNCHANGED <<formData, selectedRetailer>>
    /\ productsUnchanged
    /\ Closed
    /\ Ui

InputsAnyParent ==
    CASE page = "categories" ->
            [name |-> TextValues, description |-> TextValues,
             parent_id |-> {""} \cup {c.id : c \in Categories}]
      [] page = "retailers" ->
            [name |-> TextValues, phone |-> TextValues, email |-> EmailValues,
             address |-> TextValues, location_lat |-> NumberValues,
             location_lng |-> NumberValues, is_active |-> BOOLEAN]
      [] page = "retailer-products" ->
            [price |-> NumberValues, stock_quantity |-> NumberValues,
             is_available |-> BOOLEAN]
            @@ (IF editing = Null
                THEN [product_variant_id |-> {""} \cup {v.id : v \in Variants}]
                ELSE EmptyObj)

\* the inputs of the page's form and what each can be set to
Inputs ==
    CASE page = "categories" ->
            [name |-> TextValues, description |-> TextValues,
             parent_id |-> {""} \cup {c.id : c \in {x \in Categories : x.id # OptId(editing)}}]
      [] page = "retailers" ->
            [name |-> TextValues, phone |-> TextValues, email |-> EmailValues,
             address |-> TextValues, location_lat |-> NumberValues,
             location_lng |-> NumberValues, is_active |-> BOOLEAN]
      [] page = "retailer-products" ->
            [price |-> NumberValues, stock_quantity |-> NumberValues,
             is_available |-> BOOLEAN]
            @@ (IF editing = Null
                THEN [product_variant_id |-> {""} \cup {v.id : v \in Variants}]
                ELSE EmptyObj)

\* onChange of an input: setFormData({ ...formData, [field]: value })
setFormData ==
    /\ page \in FormPages
    /\ modalOpen
    /\ edits < MaxEdits
    /\ \E field \in DOMAIN Inputs : \E value \in Inputs[field] :
          /\ value # formData[field]
          /\ formData' = [formData EXCEPT ![field] = value]
    /\ edits' = edits + 1
    /\ opener' = [opener EXCEPT !.touched = TRUE]
    /\ UNCHANGED <<modalOpen, editing, selectedRetailer>>
    /\ productsUnchanged
    /\ Ui

\* the browser lets the form submit: every required input has a value
\* the inputs the page's form marks required (the variant select is
\* rendered, and required, only when adding)
Required ==
    CASE page = "categories" -> {"name"}
      [] page = "retailers" -> {"name"}
      [] page = "retailer-products" ->
            {"price", "stock_quantity"}
            \cup (IF editing = Null THEN {"product_variant_id"} ELSE {})

RequiredFilled == \A f \in Required : formData[f] # ""

\* what an input of type email accepts: nothing, or an e-mail address
IsEmail(s) == s = "a@b.c"

TypeValid == page = "retailers" => (formData.email = "" \/ IsEmail(formData.email))

FormValidRequiredOnly == RequiredFilled

\* the browser's validation of the form: it sends no submit event to the
\* handler while an input is invalid
FormValid == RequiredFilled /\ TypeValid

handleSubmit ==
    /\ page \in FormPages
    /\ modalOpen
    /\ FormValid
    /\ Submitted(CASE page = "categories" -> CategoriesSubmit(editing, formData)
                   [] page = "retailers" -> RetailersSubmit(editing, formData)
                   [] page = "retailer-products" ->
                         MappingSubmit(editing, formData, selectedRetailer))

\* RetailerProductsPage: Manage Products button of a retailer row
setSelectedRetailer ==
    /\ page = "retailer-products"
    /\ PageClickable
    /\ selectedRetailer = Null
    /\ \E r \in Retailers : selectedRetailer' = r
    /\ UNCHANGED <<modalOpen, editing, formData, opener, edits>>
    /\ productsUnchanged
    /\ Ui

\* RetailerProductsPage: Back button
backToRetailers ==
    /\ page = "retailer-products"
    /\ PageClickable
    /\ selectedRetailer # Null
    /\ selectedRetailer' = Null
    /\ UNCHANGED <<modalOpen, editing, formData, opener, edits>>
    /\ productsUnchanged
    /\ Ui

---------------------------------------------------------------------------
(* ProductsPage: the product list with its modal, and the variants of the  *)
(* selected product with theirs                                            *)

formsUnchanged == UNCHANGED <<modalOpen, editing, formData, selectedRetailer>>

\* Variants button of a product row
setSelectedProduct ==
    /\ page = "products"
    /\ PageClickable
    /\ selectedProduct = Null
    /\ \E p \in Products : selectedProduct' = p
    /\ UNCHANGED <<productModalOpen, variantModalOpen, editingProduct,
                   editingVariant, productForm, variantForm, opener, edits>>
    /\ formsUnchanged
    /\ Ui

\* Back button
backToProducts ==
    /\ page = "products"
    /\ PageClickable
    /\ selectedProduct # Null
    /\ selectedProduct' = Null
    /\ UNCHANGED <<productModalOpen, variantModalOpen, editingProduct,
                   editingVariant, productForm, variantForm, opener, edits>>
    /\ formsUnchanged
    /\ Ui

openCreateProductKeepsTarget ==
    /\ page = "products"
    /\ PageClickable
    /\ selectedProduct = Null
    /\ productForm' = ProductFormDefault
    /\ productModalOpen' = TRUE
    /\ opener' = [via |-> "add", touched |-> FALSE]
    /\ edits' = edits
    /\ UNCHANGED <<editingProduct, variantModalOpen, selectedProduct,
                   editingVariant, variantForm>>
    /\ formsUnchanged
    /\ Ui

\* Add Product button, shown with the product list
openCreateProduct ==
    /\ page = "products"
    /\ PageClickable
    /\ selectedProduct = Null
    /\ editingProduct' = Null
    /\ productForm' = ProductFormDefault
    /\ productModalOpen' = TRUE
    /\ opener' = [via |-> "add", touched |-> FALSE]
    /\ edits' = edits
    /\ UNCHANGED <<variantModalOpen, selectedProduct, editingVariant, variantForm>>
    /\ formsUnchanged
    /\ Ui

\* Edit button of a product row
openEditProduct ==
    /\ page = "products"
    /\ PageClickable
    /\ selectedProduct = Null
    /\ \E product \in Products :
          /\ editingProduct' = product
          /\ productForm' = ProductEditForm(product)
          /\ opener' = [via |-> "edit", id |-> product.id, touched |-> FALSE]
    /\ productModalOpen' = TRUE
    /\ edits' = edits
    /\ UNCHANGED <<variantModalOpen, selectedProduct, editingVariant, variantForm>>
    /\ formsUnchanged
    /\ Ui

\* Cancel / onClose of the product modal: setProductModalOpen(false)
closeProductModal ==
    /\ page = "products"
    /\ productModalOpen
    /\ productModalOpen' = FALSE
    /\ UNCHANGED <<variantModalOpen, editingProduct, selectedProduct,
                   editingVariant, productForm, variantForm>>
    /\ formsUnchanged
    /\ Closed
    /\ Ui

\* the inputs of the product form (description has none)
ProductInputs ==
    [name |-> TextValues, manufacturer |-> TextValues,
     category_id |-> {""} \cup {c.id : c \in Categories}, is_active |-> BOOLEAN]

setProductForm ==
    /\ page = "products"
    /\ productModalOpen
    /\ edits < MaxEdits
    /\ \E field \in DOMAIN ProductInputs : \E value \in ProductInputs[field] :
          /\ value # productForm[field]
          /\ productForm' = [productForm EXCEPT ![field] = value]
    /\ edits' = edits + 1
    /\ UNCHANGED <<productModalOpen, variantModalOpen, editingProduct,
                   selectedProduct, editingVariant, variantForm>>
    /\ opener' = [opener EXCEPT !.touched = TRUE]
    /\ formsUnchanged
    /\ Ui

handleProductSubmit ==
    /\ page = "products"
    /\ productModalOpen
    /\ productForm.name # ""
    /\ Submitted(ProductSubmit(editingProduct, productForm))

\* Add Variant button, shown with the variants of the selected product
openCreateVariant ==
    /\ page = "products"
    /\ PageClickable
    /\ selectedProduct # Null
    /\ editingVariant' = Null
    /\ variantForm' = VariantFormDefault
    /\ variantModalOpen' = TRUE
    /\ opener' = [via |-> "add", touched |-> FALSE]
    /\ edits' = edits
    /\ UNCHANGED <<productModalOpen, editingProduct, selectedProduct, productForm>>
    /\ formsUnchanged
    /\ Ui

\* Edit button of a variant row
openEditVariant ==
    /\ page = "products"
    /\ PageClickable
    /\ selectedProduct # Null
    /\ \E variant \in VariantsOf(selectedProduct.id) :
          /\ editingVariant' = variant
          /\ variantForm' = VariantEditForm(variant)
          /\ opener' = [via |-> "edit", id |-> variant.id, touched |-> FALSE]
    /\ variantModalOpen' = TRUE
    /\ edits' = edits
    /\ UNCHANGED <<productModalOpen, editingProduct, selectedProduct, productForm>>
    /\ formsUnchanged
    /\ Ui

\* Cancel / onClose of the variant modal: setVariantModalOpen(false)
closeVariantModal ==
    /\ page = "products"
    /\ variantModalOpen
    /\ variantModalOpen' = FALSE
    /\ UNCHANGED <<productModalOpen, editingProduct, selectedProduct,
                   editingVariant, productForm, variantForm>>
    /\ formsUnchanged
    /\ Closed
    /\ Ui

\* the inputs of the variant form (unit_type has none)
VariantInputs ==
    [sku |-> TextValues, name |-> TextValues, unit_size |-> TextValues,
     base_price |-> NumberValues, is_active |-> BOOLEAN]

setVariantForm ==
    /\ page = "products"
    /\ variantModalOpen
    /\ edits < MaxEdits
    /\ \E field \in DOMAIN VariantInputs : \E value \in VariantInputs[field] :
          /\ value # variantForm[field]
          /\ variantForm' = [variantForm EXCEPT ![field] = value]
    /\ edits' = edits + 1
    /\ UNCHANGED <<productModalOpen, variantModalOpen, editingProduct,
                   selectedProduct, editingVariant, productForm>>
    /\ opener' = [opener EXCEPT !.touched = TRUE]
    /\ formsUnchanged
    /\ Ui

handleVariantSubmit ==
    /\ page = "products"
    /\ variantModalOpen
    /\ variantForm.sku # ""
    /\ Submitted(VariantSubmit(editingVariant, variantForm, selectedProduct))

---------------------------------------------------------------------------
(* The responses to the pages' mutations *)

\* 2xx: the promise is fulfilled and the hook's onSuccess runs
MutationSuccess ==
    /\ \E t \in Pending :
          /\ t.hook \in PageHooks
          /\ LET queryKey == QueryKey(t.hook, SelectionOf(t)) IN
             ResponseOk(t, [queryKey |-> queryKey,
                            invalidated |-> Invalidated(queryKey),
                            fetches |-> Refetched(queryKey)])
          /\ OnSuccess(t.hook)
    /\ Closed
    /\ UNCHANGED <<page, formData, selectedRetailer, editingProduct,
                   selectedProduct, editingVariant, productForm, variantForm>>

OnErrorCloses(hook) ==
    /\ OnSuccess(hook)
    /\ Closed
    /\ UNCHANGED <<page, formData, selectedRetailer, editingProduct,
                   selectedProduct, editingVariant, productForm, variantForm>>

\* the hooks pass no onError: a failed mutation updates no state of the page
OnError(hook) == UNCHANGED pageVars

\* an error: the promise is rejected, the mutation is in its error state
MutationError ==
    /\ \E t \in Pending, e \in Errors :
          t.hook \in PageHooks /\ ResponseError(t, e) /\ OnError(t.hook)

---------------------------------------------------------------------------
(* App: the routes, and the load of the application at a path *)

\* what can stand for :id in a path
Segments == OrderIds \cup {"x"}

\* <Route path=... element=...>, in the order of App
Routes ==
    ("/" :> "dashboard")
    @@ ("/categories" :> "categories") @@ ("/products" :> "products")
    @@ ("/retailers" :> "retailers")
    @@ ("/retailer-products" :> "retailer-products")
    @@ ("/orders" :> "orders")

\* the paths '/orders/:id' matches
OrderDetailPaths == {"/orders/" \o id : id \in Segments}

\* the element the router renders at a path; '*' has none but <Navigate>
Matched(path) ==
    IF path \in DOMAIN Routes THEN Routes[path]
    ELSE IF path \in OrderDetailPaths THEN "order-detail"
    ELSE "*"

ResolvedInPlace(path) == path

\* <Navigate to="/" replace />: the path the router leaves in the address bar
Resolved(path) == IF Matched(path) = "*" THEN "/" ELSE path

\* the paths the application is loaded at
Paths ==
    DOMAIN Routes \cup OrderDetailPaths
    \cup {"/login", "/orders/o1/items", "/category"}

\* the browser loads the application at path: the router settles on a route
\* and its page mounts with fresh state; no request is running
LoadedAt(path) ==
    /\ location = Resolved(path)
    /\ Mounted(Matched(location))
    /\ inflight = EmptyBag
    /\ last = [op |-> "load", path |-> path]

\* the document the redirect of the 401 handler asked for is loaded: the
\* page that was shown is gone with its state and its running requests
Load ==
    /\ location = "/login"
    /\ location' = Resolved(location)
    /\ page' = Matched(location')
    /\ modalOpen' = FALSE
    /\ editing' = Null
    /\ formData' = InitialFormData(page')
    /\ selectedRetailer' = Null
    /\ productModalOpen' = FALSE
    /\ variantModalOpen' = FALSE
    /\ editingProduct' = Null
    /\ selectedProduct' = Null
    /\ editingVariant' = Null
    /\ productForm' = ProductFormDefault
    /\ variantForm' = VariantFormDefault
    /\ opener' = [via |-> "none"]
    /\ inflight' = EmptyBag
    /\ UNCHANGED <<apiClient, allVariants, table>>
    /\ ordersPage' = NoOrders
    /\ last' = [op |-> "load", path |-> location]
    /\ UNCHANGED <<localStorage, since401, edits>>

\* the application is loaded at some path, its lists are fetched
Init ==
    /\ localStorage = [admin_token |-> "tokA"]
    /\ since401 = FALSE
    /\ edits = 0
    /\ apiClient = axios_create("client", EmptyObj)
    /\ allVariants = [status |-> "idle"]
    /\ ordersPage = NoOrders
    /\ table = NoTable
    /\ \E path \in Paths : LoadedAt(path)

Next ==
    \/ openCreate
    \/ openEdit
    \/ closeModal
    \/ setFormData
    \/ handleSubmit
    \/ setSelectedRetailer
    \/ backToRetailers
    \/ setSelectedProduct
    \/ backToProducts
    \/ openCreateProduct
    \/ openEditProduct
    \/ closeProductModal
    \/ setProductForm
    \/ handleProductSubmit
    \/ openCreateVariant
    \/ openEditVariant
    \/ closeVariantModal
    \/ setVariantForm
    \/ handleVariantSubmit
    \/ MutationSuccess
    \/ MutationError
    \/ Load

Spec == Init /\ [][Next]_vars

---------------------------------------------------------------------------
(* Properties of the client layer *)

StoredToken == getItem(localStorage, "admin_token")

SettledWith401 == last.op = "settle" /\ Is401(last.raw)

\* C1: in the state the response interceptor leaves after an error whose
\* response status is 401, local storage has no 'admin_token' entry and the
\* location is '/login', whatever request of whatever API module failed.
C1_Clears401 ==
    SettledWith401 =>
        /\ "admin_token" \notin DOMAIN localStorage
        /\ location = "/login"

C1_Witness ==
    /\ SettledWith401
    /\ last.kind = "mutation"
    /\ since401

\* C2: a request that was just sent carries Authorization = 'Bearer <token>'
\* exactly when local storage holds a non-empty 'admin_token' at that moment,
\* <token> being the stored value; without one it has no Authorization header
\* and is sent all the same (it is among the running requests).
C2_BearerIffToken ==
    last.op = "send" =>
        /\ \E t \in Pending : t.config = Envelope(last.config)
        /\ IF StoredToken \notin {JsNull, ""}
           THEN /\ Has(last.config.headers, "Authorization")
                /\ last.config.headers["Authorization"] = "Bearer " \o StoredToken
           ELSE ~Has(last.config.headers, "Authorization")

C2_Witness ==
    /\ last.op = "send"
    /\ StoredToken = ""
    /\ ~Has(last.config.headers, "Authorization")
    /\ \E t \in Pending : t.config = Envelope(last.config)

\* C3 as claimed: a request that fails puts its query or mutation into the
\* error state after exactly one attempt; nothing is re-issued.
C3_NoRetry ==
    (last.op = "settle" /\ last.promise.state = "rejected") =>
        /\ last.status = "error"
        /\ last.attempts = 1

\* C3 as amended: a failed mutation is in its error state after exactly one
\* attempt; a failed query is re-issued once, and is in its error state after
\* its second failed attempt.
C3_OneQueryRetry ==
    /\ (last.op = "settle" /\ last.promise.state = "rejected") =>
          IF last.kind = "mutation"
          THEN last.status = "error" /\ last.attempts = 1
          ELSE \/ last.status = "retrying" /\ last.attempts = 1
               \/ last.status = "error" /\ last.attempts = 2
    /\ \A t \in Running :
          t.failureCount <= (IF t.kind = "query" THEN 1 ELSE 0)

C3_Witness ==
    /\ last.op = "settle"
    /\ last.kind = "query"
    /\ last.status = "error"
    /\ last.attempts = 2

\* C4 as claimed: every error is returned as a promise rejected with the same
\* error and puts the caller's query or mutation into its error state; a
\* successful response is passed through unchanged.
C4_RejectsIntoErrorState ==
    last.op = "settle" =>
        IF last.raw \in Errors
        THEN /\ last.promise = [state |-> "rejected", reason |-> last.raw]
             /\ last.status = "error"
        ELSE /\ last.promise = [state |-> "fulfilled", value |-> last.raw]
             /\ last.status = "success"

\* C4 as amended: every error (any status, or none) is returned as a promise
\* rejected with the same error and is never a success: a mutation enters its
\* error state, a query enters it unless the attempt was its first, which is
\* retried; a successful response is passed through unchanged.
C4_RejectsSameError ==
    last.op = "settle" =>
        IF last.raw \in Errors
        THEN /\ last.promise = [state |-> "rejected", reason |-> last.raw]
             /\ last.status \in {"error", "retrying"}
             /\ last.status = "retrying" => (last.kind = "query" /\ last.attempts = 1)
        ELSE /\ last.promise = [state |-> "fulfilled", value |-> last.raw]
             /\ last.status = "success"

C4_Witness ==
    /\ last.op = "settle"
    /\ last.raw = NetworkError
    /\ last.kind = "mutation"
    /\ last.status = "error"

\* C5: a step in which the interceptors handle a successful response or an
\* error that is not a 401 (a network error included) changes neither the
\* stored 'admin_token' nor the location.
C5_OnlyTouchedBy401 ==
    [][ (last'.op = "settle" /\ ~Is401(last'.raw)) =>
            (localStorage' = localStorage /\ location' = location) ]_vars

C5_Witness ==
    /\ last.op = "settle"
    /\ last.raw = [response |-> [status |-> 403]]
    /\ StoredToken = "tokA"
    /\ location = "/"

\* C6: a request sent after a 401 was handled, and before a token is written
\* to local storage again, carries no Authorization header.
C6_NoHeaderAfter401 ==
    (last.op = "send" /\ since401) =>
        ~Has(last.config.headers, "Authorization")

C6_Witness ==
    /\ last.op = "send"
    /\ since401
    /\ location = "/login"
    /\ ~Has(last.config.headers, "Authorization")

\* the resource a url addresses: its path with every id replaced by {id}
Resource(url) ==
    [i \in 1..Len(url) |-> IF url[i] \in AllIds THEN "{id}" ELSE url[i]]

ListedResources ==
    { <<"categories">>, <<"products">>, <<"products", "{id}", "variants">>,
      <<"products", "variants", "{id}">>, <<"retailers">>,
      <<"retailers", "{id}", "products">>, <<"retailer-products", "{id}">>,
      <<"orders">>, <<"orders", "{id}">> }

\* C7 as claimed: every request uses GET, POST or PATCH and addresses one of
\* the nine listed resources.
C7_ListedResourcesOnly ==
    \A t \in Running :
        /\ t.config.method \in {"GET", "POST", "PATCH"}
        /\ Resource(t.config.url) \in ListedResources

\* C7 as amended: every request uses GET, POST or PATCH and addresses one of
\* the nine listed resources or one of /categories/{id}, /products/{id},
\* /retailers/{id}, which the update calls PATCH.
C7_VerbsAndResources ==
    \A t \in Running :
        /\ t.config.method \in {"GET", "POST", "PATCH"}
        /\ Resource(t.config.url) \in ListedResources \cup
              { <<"categories", "{id}">>, <<"products", "{id}">>,
                <<"retailers", "{id}">> }
        /\ Len(t.config.url) = 2 /\ Resource(t.config.url)[1] \in
              {"categories", "products", "retailers"}
              => t.config.method = "PATCH"

C7_Witness ==
    \E t \in Running :
        /\ t.config.method = "PATCH"
        /\ t.config.url = <<"categories", "c1">>

---------------------------------------------------------------------------
(* Properties of the pages' submits and of their onSuccess callbacks *)

Submits == last.op = "submit"

Succeeded == last.op = "settle" /\ last.kind = "mutation" /\ last.status = "success"

\* the collections an update request addresses one item of
ItemPaths ==
    {<<"categories">>, <<"retailers">>, <<"retailer-products">>,
     <<"products">>, <<"products", "variants">>}

\* C8: a form submit issues exactly one request, one more than were running
\* and the handler does not throw; when the Edit button of item X opened the
\* modal the request is a PATCH whose url ends in X's id, when an Add button
\* opened it the request is a POST; no submit happens in a modal that neither
\* button opened.
C8_OneRequestPerSubmit ==
    [][last'.op = "submit" =>
          /\ ~Has(last', "throws")
          /\ BagCardinality(inflight') = BagCardinality(inflight) + 1
          /\ \E t \in BagToSet(inflight') :
                /\ t.config = Envelope(last'.config)
                /\ t.failureCount = 0
                /\ Retries(t.kind) = 0
          /\ opener.via \in {"add", "edit"}
          /\ opener.via = "edit" =>
                /\ last'.config.method = "PATCH"
                /\ \E path \in ItemPaths :
                      last'.config.url = Append(path, opener.id)
          /\ opener.via = "add" => last'.config.method = "POST"]_vars

C8_Witness ==
    /\ Submits
    /\ opener.via = "edit"
    /\ last.config.method = "PATCH"
    /\ last.config.url = <<"products", "variants", opener.id>>

\* the flag of the modal a hook's mutations are submitted from, of the
\* page's flags modalOpen, productModalOpen, variantModalOpen
ModalOf(hook, flags) ==
    IF hook \in ProductHooks THEN flags[2]
    ELSE IF hook \in VariantHooks THEN flags[3]
    ELSE flags[1]

ModalFlags == <<modalOpen, productModalOpen, variantModalOpen>>

ListHooks == CategoryHooks \cup RetailerHooks \cup ProductHooks

\* C9: the step in which a category, retailer or product mutation succeeds
\* invalidates ['categories'], ['retailers'] or ['products'] and leaves the
\* hook's modal closed; a step invalidates a query only if it is the 2xx
\* answer to a mutation, a submit leaves its modal open, and a failed
\* mutation leaves every modal as it was.
C9_InvalidatesAndClosesOnSuccess ==
    [][/\ (Succeeded' /\ last'.hook \in ListHooks) =>
             /\ last'.queryKey =
                   CASE last'.hook \in CategoryHooks -> <<"categories">>
                     [] last'.hook \in RetailerHooks -> <<"retailers">>
                     [] last'.hook \in ProductHooks -> <<"products">>
             /\ ~ModalOf(last'.hook, ModalFlags')
       /\ Has(last', "queryKey") =>
             /\ Succeeded'
             /\ last'.raw = OkResponse
             /\ last'.promise.state = "fulfilled"
       /\ (Submits' /\ ~Has(last', "throws")) =>
             /\ ModalOf(last'.hook, ModalFlags')
             /\ ~Has(last', "queryKey")
       /\ (last'.op = "settle" /\ last'.status = "error") =>
             UNCHANGED ModalFlags]_vars

C9_Witness ==
    /\ Succeeded
    /\ last.hook \in CategoryHooks
    /\ last.queryKey = <<"categories">>
    /\ ~modalOpen
    /\ last.config.method = "PATCH"

\* the cache entry of the list a variant or mapping request changes
ChangedList(config) ==
    LET url == config.url IN
    CASE url[1] = "products" /\ url[2] = "variants" ->
            <<"variants", (CHOOSE v \in Variants : v.id = url[3]).product_id>>
      [] url[1] = "products" /\ url[2] # "variants" -> <<"variants", url[2]>>
      [] url[1] = "retailers" -> <<"retailer-products", url[2]>>
      [] url[1] = "retailer-products" ->
            <<"retailer-products",
              (CHOOSE m \in Mappings : m.id = url[2]).retailer_id>>

\* C10: when a variant create/update or a retailer-product add/update has
\* succeeded, the invalidated key is ['variants', P] of the product P the
\* variant belongs to, or ['retailer-products', R] of the retailer R the
\* mapping belongs to, whatever is selected when the answer arrives.
C10_InvalidatesChangedList ==
    (Succeeded /\ last.hook \in VariantHooks \cup MappingHooks) =>
        last.queryKey = ChangedList(last.config)

\* the answer to a request for one product or retailer arrives while
\* another one, or none, is selected
C10_Witness ==
    /\ Succeeded
    /\ last.hook \in VariantHooks \cup MappingHooks
    /\ last.queryKey[2] # ChangedList(last.config)[2]
    /\ last.queryKey[2] = Selection

\* the state of the mounted page's component
PageState ==
    <<modalOpen, editing, formData, selectedRetailer, productModalOpen,
      variantModalOpen, editingProduct, selectedProduct, editingVariant,
      productForm, variantForm>>

Failed == last.op = "settle" /\ last.kind = "mutation" /\ last.status = "error"

\* C11 as stated: the step in which a mutation fails leaves the page's state
\* as it was and invalidates nothing, and the state then stays so (modal
\* open, editing target and form values retained) until the user acts or
\* another mutation succeeds.
C11_FailureKeepsPage ==
    [][/\ Failed' => (UNCHANGED PageState /\ ~Has(last', "queryKey"))
       /\ (Failed /\ PageState' # PageState) =>
             (last'.op = "ui" \/ Succeeded')]_vars

\* C11: the step in which a mutation fails leaves the page's state as it
\* was and invalidates nothing; afterwards the state is changed only by the
\* user, by the success of another mutation, or, once a 401 has set the
\* location to '/login', by the load of the application, which discards the
\* modal, the editing target and the form values.
C11_FailureKeepsPageUntilReload ==
    [][/\ Failed' =>
             /\ UNCHANGED PageState
             /\ page' = page
             /\ ~Has(last', "queryKey")
             /\ Is401(last'.raw) => location' = "/login"
       /\ (Failed /\ PageState' # PageState) =>
             \/ last'.op = "ui"
             \/ Succeeded'
             \/ last'.op = "load" /\ since401 /\ location = "/login"
       /\ (Failed /\ last'.op = "load") =>
             /\ ~ModalIsOpen'
             /\ editing' = Null /\ editingProduct' = Null
             /\ editingVariant' = Null]_vars

C11_Witness ==
    /\ Failed
    /\ ~Is401(last.raw)
    /\ modalOpen
    /\ editing # Null
    /\ formData # EditForm(editing)

\* the running requests once each has been detached from the hook
Older(hook) == BagOfAll(LAMBDA t : Detach(t, hook), inflight)

\* C12: a submit adds its own request to the running ones, whatever is
\* running: every request that ran before the submit still runs after it
\* (none is dropped or replaced), and the new one is counted apart even
\* when it is equal to one that runs already (none is deduplicated).
C12_EverySubmitItsOwnRequest ==
    [][(last'.op = "submit" /\ ~Has(last', "throws")) =>
          \E t \in BagToSet(inflight') :
             /\ t.config = Envelope(last'.config)
             /\ t.hook = last'.hook
             /\ t.kind = "mutation"
             /\ ~t.backoff
             /\ inflight' = Older(last'.hook) (+) SetToBag({t})]_vars

\* the form was submitted twice while the first request was in flight: two
\* equal requests run
C12_Witness ==
    /\ Submits
    /\ modalOpen
    /\ \E t \in BagToSet(inflight) :
          /\ t.config = Envelope(last.config)
          /\ CopiesIn(t, inflight) = 2

\* the form a hook's submit reads
FormOf(hook) ==
    IF hook \in ProductHooks THEN productForm
    ELSE IF hook \in VariantHooks THEN variantForm
    ELSE formData

\* the optional text inputs and the required one of the hook's form
OptionalText(hook) ==
    CASE hook \in CategoryHooks -> {"description", "parent_id"}
      [] hook \in RetailerHooks -> {"phone", "email", "address"}
      [] hook \in ProductHooks -> {"description", "manufacturer", "category_id"}
      [] hook \in VariantHooks -> {"name", "unit_size", "unit_type"}

RequiredText(hook) == IF hook \in VariantHooks THEN "sku" ELSE "name"

\* C13: in the request a category, product, retailer or variant submit has
\* just sent, each optional text field is present exactly when its form
\* value is not '', and then carries that value; the required field (name,
\* or sku of a variant) is present with the form's value, and so is is_active
\* where the form has it.
C13_PayloadShape ==
    (Submits /\ ~Has(last, "throws") /\ last.hook \notin MappingHooks) =>
        LET data == last.config.data
            form == FormOf(last.hook) IN
        /\ \A f \in OptionalText(last.hook) :
              /\ Has(data, f) <=> form[f] # ""
              /\ Has(data, f) => data[f] = form[f]
        /\ Has(data, RequiredText(last.hook))
        /\ data[RequiredText(last.hook)] = form[RequiredText(last.hook)]
        /\ Has(form, "is_active") =>
              (Has(data, "is_active") /\ data.is_active = form.is_active)
        /\ Has(data, "is_active") => data.is_active \in BOOLEAN

\* an update of a category that has a description, with the description
\* input emptied: the request does not carry the field
C13_Witness ==
    /\ Submits
    /\ last.hook = "CategoriesPage.updateMutation"
    /\ Has(editing, "description")
    /\ formData.description = ""
    /\ ~Has(last.config.data, "description")
    /\ Has(last.config.data, "parent_id")

---------------------------------------------------------------------------
(* Properties of the client's base URL *)

\* the base URL the environment names: VITE_API_URL when set and not '',
\* and '/api/admin' otherwise
NamedBase == EnvOrDefault(apiClient.env)

\* C14 as stated: the client's base URL is VITE_API_URL when it is set and
\* not empty and '/api/admin' otherwise, and every request sent carries it.
C14_BaseIsEnvValue ==
    /\ apiClient.baseURL = NamedBase
    /\ last.op = "send" => last.config.baseURL = NamedBase

\* C14: the first client module uses the named base as it is; the second
\* one puts 'https://' before it unless it is '/api/admin' or starts with
\* 'http'; every request sent carries the client's base URL.
C14_BaseIsEnvValueOrHttps ==
    /\ apiClient.baseURL =
          IF apiClient.module = "client-https"
             /\ NamedBase # Chars("/api/admin")
             /\ ~startsWith(NamedBase, Chars("http"))
          THEN Chars("https://") \o NamedBase
          ELSE NamedBase
    /\ (apiClient.module = "client" \/ ~Has(apiClient.env, "VITE_API_URL")
          \/ startsWith(NamedBase, Chars("http")))
          => apiClient.baseURL = NamedBase
    /\ last.op = "send" => last.config.baseURL = apiClient.baseURL
    /\ \A t \in BagToSet(inflight) : t.config.baseURL = apiClient.baseURL

C14_Witness ==
    /\ last.op = "send"
    /\ apiClient.module = "client-https"
    /\ apiClient.env = [VITE_API_URL |-> Chars("a.io")]
    /\ last.config.baseURL = Chars("https://") \o Chars("a.io")

---------------------------------------------------------------------------
(* Properties of the forms' validation *)

\* the required inputs of the form a hook's submit reads are filled
RequiredSent(hook) ==
    CASE hook \in CategoryHooks \cup RetailerHooks -> formData.name # ""
      [] hook \in ProductHooks -> productForm.name # ""
      [] hook \in VariantHooks -> variantForm.sku # ""
      [] hook = "RetailerProductsPage.updateProductMutation" ->
            formData.price # "" /\ formData.stock_quantity # ""
      [] hook = "RetailerProductsPage.addProductMutation" ->
            /\ formData.price # "" /\ formData.stock_quantity # ""
            /\ formData.product_variant_id # ""

\* the one-form page shows its form and could start one more mutation
FormShown == page \in FormPages /\ modalOpen /\ BagCardinality(inflight) < Capacity

\* C15 as stated: no request is sent with an empty required field, and a
\* shown form whose required fields are filled can be submitted.
C15_RequiredIsOnlyGate ==
    /\ (Submits /\ ~Has(last, "throws")) => RequiredSent(last.hook)
    /\ (FormShown /\ RequiredFilled) => ENABLED handleSubmit

\* C15: no request is sent with an empty required field, nor with an e-mail
\* input holding something that is no e-mail address; a shown form can be
\* submitted exactly when its required fields are filled and its e-mail
\* input, if it has one, is empty or holds an e-mail address.
C15_RequiredAndTypeGate ==
    /\ (Submits /\ ~Has(last, "throws")) =>
          /\ RequiredSent(last.hook)
          /\ last.hook \in RetailerHooks =>
                (formData.email = "" \/ IsEmail(formData.email))
    /\ FormShown =>
          (ENABLED handleSubmit <=>
              /\ RequiredFilled
              /\ page = "retailers" =>
                    (formData.email = "" \/ IsEmail(formData.email)))

C15_Witness ==
    /\ page = "retailers"
    /\ FormShown
    /\ formData.name # ""
    /\ formData.email = "abc"
    /\ ~ENABLED handleSubmit

---------------------------------------------------------------------------
(* RetailerProductsPage: the ['all-variants'] query.  Its query function   *)
(* awaits the product list and then the variants of each product in turn.  *)

\* the product lists and the variant lists the server may answer with
ProductLists ==
    {<<>>} \cup {<<p>> : p \in Products}
    \cup {pq \in Products \X Products : pq[1] # pq[2]}

VariantLists(productId) == {<<>>} \cup {<<v>> : v \in VariantsOf(productId)}

\* allVariants.push(...variantsRes.data)
PushedFront(all, data) == data \o all

Pushed(all, data) == all \o data

\* the request the query function awaits is sent
Awaited(config) ==
    LET sent == RequestInterceptor(WithDefaults(config), localStorage) IN
    /\ inflight' = SetToBag({Task(sent, "query", "all-variants")})
    /\ last' = [op |-> "send", config |-> sent]

\* the query function starts: const productsRes = await productsApi.list()
Started(failureCount) ==
    /\ allVariants' = [status |-> "fetching", failureCount |-> failureCount,
                       products |-> <<>>, i |-> 0, responses |-> <<>>,
                       all |-> <<>>,
                       run |-> <<productsApi_list(Undefined).url>>]
    /\ Awaited(productsApi_list(Undefined))

\* the page mounts and the query fetches
AllVariantsFetch ==
    /\ allVariants.status = "idle"
    /\ Started(0)
    /\ UNCHANGED <<apiClient, table, ordersPage, localStorage, location, since401>>
    /\ UNCHANGED pageVars

\* the query function returns allVariants: the query has its data
Resolved_(q) ==
    /\ allVariants' = [status |-> "success", failureCount |-> 0,
                       products |-> q.products, responses |-> q.responses,
                       run |-> q.run, data |-> q.all]
    /\ inflight' = EmptyBag
    /\ last' = [op |-> "settle", status |-> "success", kind |-> "query",
                hook |-> "all-variants"]

\* the loop goes on with the next product, or the function returns
Continued(q) ==
    IF q.i = Len(q.products) THEN Resolved_(q)
    ELSE LET next == productsApi_listVariants(q.products[q.i + 1].id) IN
         /\ allVariants' = [q EXCEPT !.i = @ + 1, !.run = Append(@, next.url)]
         /\ Awaited(next)

\* the product list arrives
AllVariantsProducts ==
    /\ allVariants.status = "fetching" /\ allVariants.i = 0
    /\ inflight # EmptyBag
    /\ \E ps \in ProductLists :
          Continued([allVariants EXCEPT !.products = ps])
    /\ UNCHANGED <<apiClient, table, ordersPage, localStorage, location, since401>>
    /\ UNCHANGED pageVars

\* the variants of the product the loop is at arrive
AllVariantsVariants ==
    /\ allVariants.status = "fetching" /\ allVariants.i > 0
    /\ inflight # EmptyBag
    /\ \E vs \in VariantLists(allVariants.products[allVariants.i].id) :
          Continued([allVariants EXCEPT !.all = Pushed(@, vs),
                                        !.responses = Append(@, vs)])
    /\ UNCHANGED <<apiClient, table, ordersPage, localStorage, location, since401>>
    /\ UNCHANGED pageVars

\* the awaited request fails: the await throws and the query function
\* rejects; the query client runs it again after a delay, or gives up
AllVariantsError ==
    /\ allVariants.status = "fetching"
    /\ inflight # EmptyBag
    /\ \E e \in Errors :
          /\ localStorage' = OnRejectedStorage(e, localStorage)
          /\ location' = OnRejectedLocation(e, location)
          /\ since401' = (since401 \/ Is401(e))
          /\ last' = [op |-> "settle", raw |-> e, promise |-> OnRejected(e),
                      kind |-> "query", hook |-> "all-variants",
                      status |-> IF allVariants.failureCount < Retries("query")
                                 THEN "retrying" ELSE "error"]
    /\ allVariants' =
          [status |-> IF allVariants.failureCount < Retries("query")
                      THEN "backoff" ELSE "error",
           failureCount |-> allVariants.failureCount + 1,
           products |-> allVariants.products,
           responses |-> allVariants.responses,
           run |-> allVariants.run]
    /\ inflight' = EmptyBag
    /\ UNCHANGED <<apiClient, table, ordersPage>>
    /\ UNCHANGED pageVars

\* the retry delay is over: the query function runs again from its start
AllVariantsRetry ==
    /\ allVariants.status = "backoff"
    /\ Started(allVariants.failureCount)
    /\ UNCHANGED <<apiClient, table, ordersPage, localStorage, location, since401>>
    /\ UNCHANGED pageVars

InitAllVariants ==
    /\ localStorage \in {EmptyObj, [admin_token |-> "tokA"]}
    /\ location = "/retailer-products"
    /\ inflight = EmptyBag
    /\ last = [op |-> "load", path |-> "/retailer-products"]
    /\ since401 = FALSE
    /\ edits = 0
    /\ Mounted("retailer-products")
    /\ apiClient = axios_create("client", EmptyObj)
    /\ allVariants = [status |-> "idle"]
    /\ ordersPage = NoOrders
    /\ table = NoTable

NextAllVariants ==
    \/ AllVariantsFetch
    \/ AllVariantsProducts
    \/ AllVariantsVariants
    \/ AllVariantsError
    \/ AllVariantsRetry

SpecAllVariants == InitAllVariants /\ [][NextAllVariants]_vars

---------------------------------------------------------------------------
(* Properties of the ['all-variants'] query *)

RECURSIVE Flattened(_)
\* the lists of a sequence of lists, one after the other
Flattened(lists) ==
    IF lists = <<>> THEN <<>>
    ELSE Head(lists) \o Flattened(Tail(lists))

\* the requests of a run that got to its i-th product, in the order sent
RunOf(products, i) ==
    <<productsApi_list(Undefined).url>>
    \o [k \in 1..i |-> productsApi_listVariants(products[k].id).url]

\* what the page reads: const { data: products = [] }
Exposed(q) == IF Has(q, "data") THEN q.data ELSE <<>>

\* the requests of the runs go out one at a time and in product-list order;
\* the query has data only once every product's variants have arrived, and
\* the data are those lists in that order; until then the page reads []
OneRunAtATime ==
    LET q == allVariants IN
    /\ BagCardinality(inflight) <= 1
    /\ q.status = "fetching" =>
          /\ BagCardinality(inflight) = 1
          /\ q.run = RunOf(q.products, q.i)
          /\ \A t \in BagToSet(inflight) : t.config.url = q.run[Len(q.run)]
    /\ q.status = "success" =>
          /\ Len(q.responses) = Len(q.products)
          /\ q.run = RunOf(q.products, Len(q.products))
          /\ q.data = Flattened(q.responses)
    /\ q.status # "success" => Exposed(q) = <<>>
    /\ q.status \in {"backoff", "error"} =>
          /\ inflight = EmptyBag
          /\ Len(q.run) <= Len(q.products) + 1

\* C16 as stated: the query resolves to all variants in order or, when one
\* of its requests fails, fails as a whole: it is then in its error state
\* and issues no further request.
C16_FailsAsWhole ==
    /\ OneRunAtATime
    /\ (last.op = "settle" /\ last.hook = "all-variants"
          /\ last.status # "success") =>
          allVariants.status = "error"

\* C16: the query resolves to all variants in order, and a failed request
\* ends the run of the query function without the run's remaining requests
\* and without data; after the first failed run the query client runs the
\* function once more from the product request, and after the second failed
\* run the query is in its error state.
C16_FailsAfterSecondRun ==
    /\ OneRunAtATime
    /\ allVariants.status = "backoff" => allVariants.failureCount = 1
    /\ allVariants.status = "error" => allVariants.failureCount = QueryRetry + 1
    /\ (allVariants.status = "fetching" /\ allVariants.failureCount > 0) =>
          allVariants.failureCount = 1
    /\ (last.op = "settle" /\ last.hook = "all-variants"
          /\ last.status # "success") =>
          allVariants.status = (IF allVariants.failureCount <= QueryRetry
                                THEN "backoff" ELSE "error")

\* the request for the variants of the second of two products failed in
\* the first run, after the variants of the first product had arrived
C16_Witness ==
    /\ allVariants.status = "backoff"
    /\ Len(allVariants.products) = 2
    /\ Len(allVariants.responses) = 1
    /\ allVariants.responses[1] # <<>>
    /\ Exposed(allVariants) = <<>>

---------------------------------------------------------------------------
(* Properties of the edit forms *)

\* the rows a hook's mutations change
RowsOf(hook) ==
    CASE hook \in CategoryHooks -> Categories
      [] hook \in RetailerHooks -> Retailers
      [] hook \in MappingHooks -> Mappings
      [] hook \in ProductHooks -> Products
      [] hook \in VariantHooks -> Variants

\* the fields of the hook's form that hold text, and all of its fields
TextFields(hook) ==
    IF hook \in MappingHooks THEN {"product_variant_id"}
    ELSE OptionalText(hook) \cup {RequiredText(hook)}

FormFields(hook) ==
    TextFields(hook) \cup
    CASE hook \in CategoryHooks -> {}
      [] hook \in RetailerHooks -> {"location_lat", "location_lng", "is_active"}
      [] hook \in MappingHooks -> {"price", "stock_quantity", "is_available"}
      [] hook \in ProductHooks -> {"is_active"}
      [] hook \in VariantHooks -> {"base_price", "is_active"}

\* the fields of the form that row x has a value for: present, and not ''
Valued(hook, x) ==
    {f \in FormFields(hook) \cap DOMAIN x :
        f \in TextFields(hook) => x[f] # ""}

\* the row whose Edit button opened the modal
Edited(hook) == CHOOSE x \in RowsOf(hook) : x.id = opener.id

\* C17: a submit from a modal that Edit on row X opened and in which no
\* input was changed sends a PATCH to X's id whose body has exactly the
\* form's fields X has a value for, each with X's value; the body of a
\* mapping update has X's product_variant_id whatever was changed.
C17_EditRoundTrip ==
    (Submits /\ ~Has(last, "throws") /\ opener.via = "edit") =>
        LET x == Edited(last.hook) IN
        /\ last.config.method = "PATCH"
        /\ last.config.url[Len(last.config.url)] = x.id
        /\ ~opener.touched =>
              last.config.data = [f \in Valued(last.hook, x) |-> x[f]]
        /\ last.hook \in MappingHooks =>
              last.config.data.product_variant_id = x.product_variant_id

\* an untouched edit of the retailer whose longitude is 0 was submitted
C17_Witness ==
    /\ Submits
    /\ opener.via = "edit"
    /\ ~opener.touched
    /\ last.hook = "RetailersPage.updateMutation"
    /\ Has(last.config.data, "location_lng")
    /\ last.config.data.location_lng = 0

---------------------------------------------------------------------------
(* Properties of the routes *)

\* the application has just been loaded at last.path
Loaded == last.op = "load"

\* C18: the application loaded at a path other than '/', '/categories',
\* '/products', '/retailers', '/retailer-products', '/orders' and
\* '/orders/:id' ends at '/' showing the dashboard, and loaded at one of
\* these it stays there; '/login' is not one of them, so the load that
\* follows the redirect of a 401 ends at '/'.
C18_UnknownPathsGoHome ==
    Loaded =>
        IF last.path \in {"/", "/categories", "/products", "/retailers",
                          "/retailer-products", "/orders"}
                         \cup {"/orders/" \o id : id \in Segments}
        THEN location = last.path /\ page # "*"
        ELSE location = "/" /\ page = "dashboard"

\* a 401 was answered and the application was loaded at '/login'
C18_Witness ==
    /\ Loaded
    /\ last.path = "/login"
    /\ since401
    /\ ~Has(localStorage, "admin_token")
    /\ location = "/"
    /\ page = "dashboard"

---------------------------------------------------------------------------
(* DataTable *)

\* the values a field of a data item holds, with their JavaScript type
Str(s) == [t |-> "string", s |-> s]
Num(n) == [t |-> "number", n |-> n]
NullValue == [t |-> "null"]
UndefinedValue == [t |-> "undefined"]

\* (item as Record<string, unknown>)[key]
Field(item, key) == IF Has(item, key) THEN item[key] ELSE UndefinedValue

\* a ?? b
Nullish(a, b) == IF a.t \in {"null", "undefined"} THEN b ELSE a

\* String(value)
String(value) ==
    CASE value.t = "string" -> value.s
      [] value.t = "number" -> toString(value.n)
      [] value.t = "null" -> "null"
      [] value.t = "undefined" -> "undefined"

\* the data items: T extends { id: string }
Items ==
    { [id |-> "a", name |-> Str("x")],
      [id |-> "b", name |-> NullValue, count |-> Num(5)] }

\* col.render(item), for the columns that have a render function
render(item) == "Edit " \o item.id

\* Column<T>: key, header and an optional render function
Columns ==
    { [key |-> "name", header |-> "Name"],
      [key |-> "count", header |-> "Count"],
      [key |-> "name", header |-> "Actions", render |-> "Edit"] }

RECURSIVE SeqsUpTo(_, _)
\* the sequences of at most n elements of S
SeqsUpTo(S, n) ==
    IF n = 0 THEN {<<>>}
    ELSE LET shorter == SeqsUpTo(S, n - 1) IN
         shorter \cup {Append(q, x) : q \in shorter, x \in S}

\* DataTableProps<T>; loading?: boolean and onRowClick? may be left out
DataTableProps ==
    { [columns |-> c, data |-> d] @@ l @@ o :
        c \in SeqsUpTo(Columns, MaxCols),
        d \in SeqsUpTo(Items, MaxRows),
        l \in {EmptyObj, [loading |-> TRUE], [loading |-> FALSE]},
        o \in {EmptyObj, [onRowClick |-> "navigate"]} }

CellNullAsText(col, item) ==
    IF Has(col, "render") THEN render(item)
    ELSE String(Field(item, col.key))

\* <td>{col.render ? col.render(item) : String(item[col.key] ?? '')}</td>
Cell(col, item) ==
    IF Has(col, "render") THEN render(item)
    ELSE String(Nullish(Field(item, col.key), Str("")))

\* <tr key={item.id} onClick=... style={{ cursor: ... }}> and its cells
Row(props, item) ==
    [key |-> item.id,
     cursor |-> IF Has(props, "onRowClick") THEN "pointer" ELSE "default",
     cells |-> [j \in 1..Len(props.columns) |-> Cell(props.columns[j], item)]]

\* {data.length === 0 && <tr><td colSpan={columns.length}>No data found</td></tr>}
EmptyRows(props) ==
    IF Len(props.data) = 0
    THEN << [colSpan |-> Len(props.columns), text |-> "No data found"] >>
    ELSE <<>>

\* what DataTable returns
DataTable(props) ==
    IF Has(props, "loading") /\ props.loading
    THEN [loading |-> "Loading..."]
    ELSE [head |-> [j \in 1..Len(props.columns) |-> props.columns[j].header],
          rows |-> [i \in 1..Len(props.data) |-> Row(props, props.data[i])],
          empty |-> EmptyRows(props)]

\* the parent renders the table with props; before is what the table showed
Rendered(props, before) ==
    table' = [rendered |-> TRUE, props |-> props,
              output |-> DataTable(props), before |-> before]

Shown == [props |-> table.props, output |-> table.output]

\* the parent re-renders with another value of one prop
setLoading ==
    /\ table.rendered
    /\ \E l \in {EmptyObj, [loading |-> TRUE], [loading |-> FALSE]} :
          Rendered([f \in DOMAIN table.props \ {"loading"} |-> table.props[f]] @@ l,
                   Shown)
    /\ UNCHANGED <<apiClient, allVariants, ordersPage>>
    /\ UNCHANGED clientVars
    /\ UNCHANGED pageVars

setData ==
    /\ table.rendered
    /\ \E d \in SeqsUpTo(Items, MaxRows) :
          Rendered([table.props EXCEPT !.data = d], Shown)
    /\ UNCHANGED <<apiClient, allVariants, ordersPage>>
    /\ UNCHANGED clientVars
    /\ UNCHANGED pageVars

setColumns ==
    /\ table.rendered
    /\ \E c \in SeqsUpTo(Columns, MaxCols) :
          Rendered([table.props EXCEPT !.columns = c], Shown)
    /\ UNCHANGED <<apiClient, allVariants, ordersPage>>
    /\ UNCHANGED clientVars
    /\ UNCHANGED pageVars

setOnRowClick ==
    /\ table.rendered
    /\ \E o \in {EmptyObj, [onRowClick |-> "navigate"]} :
          Rendered([f \in DOMAIN table.props \ {"onRowClick"} |-> table.props[f]] @@ o,
                   Shown)
    /\ UNCHANGED <<apiClient, allVariants, ordersPage>>
    /\ UNCHANGED clientVars
    /\ UNCHANGED pageVars

\* a DataTable is rendered for the first time
InitTable ==
    /\ localStorage = [admin_token |-> "tokA"]
    /\ location = "/"
    /\ inflight = EmptyBag
    /\ last = [op |-> "load", path |-> "/"]
    /\ since401 = FALSE
    /\ edits = 0
    /\ Mounted("dashboard")
    /\ apiClient = axios_create("client", EmptyObj)
    /\ allVariants = [status |-> "idle"]
    /\ ordersPage = NoOrders
    /\ \E props \in DataTableProps :
          table = [rendered |-> TRUE, props |-> props,
                   output |-> DataTable(props), before |-> NoTable]

NextTable ==
    \/ setLoading
    \/ setData
    \/ setColumns
    \/ setOnRowClick

SpecTable == InitTable /\ [][NextTable]_vars

---------------------------------------------------------------------------
(* Properties of DataTable *)

\* the props the output is said to depend on
Determining(props) ==
    [loading |-> Has(props, "loading") /\ props.loading,
     data |-> props.data, columns |-> props.columns]

\* what the table shows when it is not loading: one row per data item in
\* data order, one 'No data found' row over all columns exactly when there
\* is no data, and in each cell the column's render(item) or the string of
\* item[key], '' for null and undefined
ShowsData(props, output) ==
    /\ Len(output.rows) = Len(props.data)
    /\ \A i \in 1..Len(props.data) :
          /\ output.rows[i].key = props.data[i].id
          /\ Len(output.rows[i].cells) = Len(props.columns)
          /\ \A j \in 1..Len(props.columns) :
                LET col == props.columns[j]
                    item == props.data[i]
                    text == output.rows[i].cells[j] IN
                IF Has(col, "render") THEN text = render(item)
                ELSE IF ~Has(item, col.key) \/ item[col.key].t = "null"
                THEN text = ""
                ELSE String(item[col.key]) = text
    /\ Len(output.empty) = (IF props.data = <<>> THEN 1 ELSE 0)
    /\ \A k \in 1..Len(output.empty) :
          /\ output.empty[k].colSpan = Len(props.columns)
          /\ output.empty[k].text = "No data found"

\* the rows and cells are as claimed
ShowsAsClaimed(props, output) ==
    IF Has(props, "loading") /\ props.loading
    THEN output = [loading |-> "Loading..."]
    ELSE ShowsData(props, output)

\* the output without what onRowClick decides, the cursor of the rows
Content(output) ==
    IF Has(output, "loading") THEN output
    ELSE [output EXCEPT !.rows =
              [i \in 1..Len(output.rows) |->
                  [key |-> output.rows[i].key, cells |-> output.rows[i].cells]]]

\* C19 as stated: the output is the same whenever loading, data and columns
\* are the same, and the rows and cells are as claimed.
C19_OutputByThreeProps ==
    table.rendered =>
        /\ ShowsAsClaimed(table.props, table.output)
        /\ (table.before # NoTable
            /\ Determining(table.before.props) = Determining(table.props)) =>
              table.before.output = table.output

\* C19: the rows and cells are as claimed, and they are the same whenever
\* loading, data and columns are the same; the whole output is the same
\* when onRowClick is given or left out in both renders as well.
C19_ContentByThreeProps ==
    table.rendered =>
        /\ ShowsAsClaimed(table.props, table.output)
        /\ (table.before # NoTable
            /\ Determining(table.before.props) = Determining(table.props)) =>
              /\ Content(table.before.output) = Content(table.output)
              /\ Has(table.before.props, "onRowClick")
                    = Has(table.props, "onRowClick") =>
                    table.before.output = table.output

\* a table with a row whose name is null and whose count is undefined is
\* shown again after only onRowClick changed
C19_Witness ==
    /\ table.rendered
    /\ table.before # NoTable
    /\ Determining(table.before.props) = Determining(table.props)
    /\ Has(table.before.props, "onRowClick") # Has(table.props, "onRowClick")
    /\ Len(table.props.data) = 2
    /\ Len(table.props.columns) = 2
    /\ \E i \in 1..2 : table.output.rows[i].cells = <<"", "5">>
    /\ \E i \in 1..2 : table.output.rows[i].cells = <<"x", "">>

---------------------------------------------------------------------------
(* Properties of the selection *)

\* the requests the last step started
Issued ==
    (IF Has(last, "fetches") THEN last.fetches ELSE {})
    \cup (IF Submits THEN {IF Has(last, "throws") THEN last ELSE last.config}
          ELSE {})

\* the lists of a selected row: /products/{id}/variants, /retailers/{id}/products
SelectionPaths == {<<"products", "variants">>, <<"retailers", "products">>}

---------------------------------------------------------------------------
(* Properties of the modal sessions *)

CreateHooks ==
    {"CategoriesPage.createMutation", "RetailersPage.createMutation",
     "RetailerProductsPage.addProductMutation",
     "ProductsPage.createProductMutation", "ProductsPage.createVariantMutation"}

\* a request of the hook with this config was not submitted from the modal
\* that is open now: an update while Add opened it, a create while Edit
\* opened it, or an update of another row than the one Edit opened it for
Foreign(hook, config) ==
    /\ ModalOf(hook, ModalFlags)
    /\ \/ opener.via = "add" /\ hook \notin CreateHooks
       \/ opener.via = "edit" /\ hook \in CreateHooks
       \/ /\ opener.via = "edit"
          /\ hook \notin CreateHooks
          /\ config.url[Len(config.url)] # opener.id

\* C21: the step in which a mutation succeeds that was not submitted from
\* the modal open now leaves that modal open and its editing target as it is.
C21_SuccessClosesOwnModalOnly ==
    [][(Succeeded' /\ Foreign(last'.hook, last'.config)) =>
          /\ ModalOf(last'.hook, ModalFlags')
          /\ editing' = editing]_vars

\* an update is still running while a modal that Add opened is open
C21_Witness ==
    /\ opener.via = "add"
    /\ \E t \in Pending :
          /\ t.kind = "mutation"
          /\ t.hook \in PageHooks \ CreateHooks
          /\ Foreign(t.hook, t.config)

\* the editing target and the form of the modal that is open
OpenTarget ==
    IF productModalOpen THEN editingProduct
    ELSE IF variantModalOpen THEN editingVariant
    ELSE editing

OpenForm ==
    IF productModalOpen THEN productForm
    ELSE IF variantModalOpen THEN variantForm
    ELSE formData

\* C22: in a modal that an Add button opened and in which no input was
\* changed yet, the editing target is null and every field of the form has
\* its default: '' for the text and number inputs, '0' for the stock
\* quantity, true for is_active / is_available.
C22_AddStartsFresh ==
    (ModalIsOpen /\ opener.via = "add" /\ ~opener.touched) =>
        /\ OpenTarget = Null
        /\ OpenForm =
              CASE productModalOpen ->
                     [name |-> "", description |-> "", manufacturer |-> "",
                      category_id |-> "", is_active |-> TRUE]
                [] variantModalOpen ->
                     [sku |-> "", name |-> "", unit_size |-> "",
                      unit_type |-> "", base_price |-> "", is_active |-> TRUE]
                [] page = "categories" ->
                     [name |-> "", description |-> "", parent_id |-> ""]
                [] page = "retailers" ->
                     [name |-> "", phone |-> "", email |-> "", address |-> "",
                      location_lat |-> "", location_lng |-> "",
                      is_active |-> TRUE]
                [] page = "retailer-products" ->
                     [product_variant_id |-> "", price |-> "",
                      stock_quantity |-> "0", is_available |-> TRUE]

\* Add Product was clicked after an Edit of a product was submitted and its
\* modal cancelled, which left editingProduct set
C22_Witness ==
    /\ productModalOpen
    /\ opener.via = "add"
    /\ ~opener.touched
    /\ editingProduct = Null
    /\ \E t \in Pending : t.hook = "ProductsPage.updateProductMutation"

---------------------------------------------------------------------------
(* Properties of the category form *)

---------------------------------------------------------------------------
(* Properties of the invalidations *)

\* C24: a successful mutation marks exactly one cached query stale, the one
\* with the key its onSuccess names: ['categories'], ['products'] or
\* ['retailers'] for a category, product or retailer mutation, a key
\* ['variants', id] for a variant and ['retailer-products', id] for a mapping
\* mutation; ['all-variants'] is never among the queries marked stale.
C24_InvalidatesOneKey ==
    Succeeded =>
        /\ last.invalidated = {last.queryKey}
        /\ last.queryKey \in
              CASE last.hook \in CategoryHooks -> {<<"categories">>}
                [] last.hook \in ProductHooks -> {<<"products">>}
                [] last.hook \in RetailerHooks -> {<<"retailers">>}
                [] last.hook \in VariantHooks ->
                       {<<"variants", id>> : id \in ProductIds \cup {Undefined}}
                [] last.hook \in MappingHooks ->
                       {<<"retailer-products", id>> :
                            id \in RetailerIds \cup {Undefined}}
        /\ <<"all-variants">> \notin last.invalidated

\* a variant was created: the variants of its product are marked stale and
\* nothing else is
C24_Witness ==
    /\ Succeeded
    /\ last.hook = "ProductsPage.createVariantMutation"
    /\ last.config.method = "POST"
    /\ selectedProduct # Null
    /\ last.invalidated = {<<"variants", selectedProduct.id>>}

---------------------------------------------------------------------------
(* OrdersPage and OrderDetailPage *)

\* <option value=...> of the status filter, in the order of the select
StatusOptions ==
    <<"", "pending", "accepted", "fulfilled", "rejected", "cancelled">>

Filters ==
    {StatusOptions[i] : i \in 1..(IF MaxFilters < 6 THEN MaxFilters ELSE 6)}

\* the orders the server has, one of each status
ServerOrders ==
    << [id |-> "o1", status |-> "pending"],
       [id |-> "o2", status |-> "accepted"],
       [id |-> "o3", status |-> "fulfilled"],
       [id |-> "o4", status |-> "rejected"],
       [id |-> "o5", status |-> "cancelled"] >>

HasStatus(params, order) == Has(params, "status") => order.status = params.status

\* GET /orders answered for these params
Served(params) ==
    LET Wanted(order) == HasStatus(params, order) IN
    SelectSeq(ServerOrders, Wanted)

\* OrdersPage.getStatusClass
getStatusClass(status) ==
    CASE status = "pending" -> "pending"
      [] status \in {"accepted", "fulfilled"} -> "active"
      [] status \in {"rejected", "cancelled"} -> "inactive"
      [] OTHER -> ""

\* OrderDetailPage: order.status === 'pending' ? 'pending'
\*                  : order.status === 'fulfilled' ? 'active' : 'inactive'
DetailStatusClass(status) ==
    IF status = "pending" THEN "pending"
    ELSE IF status = "fulfilled" THEN "active"
    ELSE "inactive"

\* statusFilter ? { status: statusFilter } : undefined
ListParams(statusFilter) ==
    IF Truthy(statusFilter) THEN [status |-> statusFilter] ELSE EmptyObj

\* a query of the query client: its data and the params they were fetched
\* with, the request that is running for it, its failures
NewQuery ==
    [hasData |-> FALSE, data |-> <<>>, params |-> EmptyObj,
     phase |-> "idle", request |-> EmptyObj, failureCount |-> 0,
     error |-> FALSE]

\* the query function runs: the first attempt of a fetch
Fetching(q, config) ==
    [q EXCEPT !.phase = "fetching", !.request = config, !.failureCount = 0,
              !.error = FALSE]

ListRequest(statusFilter) ==
    RequestInterceptor(WithDefaults(ordersApi_list(ListParams(statusFilter))),
                       localStorage)

DetailRequest(id) ==
    RequestInterceptor(WithDefaults(ordersApi_get(id)), localStorage)

\* an observer subscribes to q: the query is fetched unless a fetch is
\* running or its data is still fresh (staleTime)
Subscribed(q, config, fresh) ==
    IF q.phase = "idle" /\ ~(q.hasData /\ fresh) THEN Fetching(q, config) ELSE q

\* the requests a step started: those of the queries that were idle
StartedBy(before, after) ==
    IF before.phase = "idle" /\ after.phase = "fetching" THEN {after.request}
    ELSE {}

\* const { data: orders = [], isLoading } = useQuery(['orders', statusFilter])
CurrentQuery == ordersPage.queries[ordersPage.statusFilter]

isLoading(q) == ~q.hasData /\ ~q.error

\* what OrdersPage shows: DataTable's loading indicator, or a row per order
\* with its status badge (and DataTable's 'No data found' row without orders)
OrdersShown ==
    LET q == CurrentQuery IN
    IF isLoading(q) THEN [loading |-> "Loading..."]
    ELSE [rows |-> [i \in 1..Len(q.data) |->
                       [id |-> q.data[i].id, status |-> q.data[i].status,
                        class |-> getStatusClass(q.data[i].status)]],
          empty |-> Len(q.data) = 0]

\* what OrderDetailPage shows
DetailShown ==
    LET q == ordersPage.detail IN
    IF isLoading(q) THEN [loading |-> "Loading..."]
    ELSE IF ~q.hasData THEN [error |-> "Order not found"]
    ELSE [id |-> q.data[1].id, status |-> q.data[1].status,
          class |-> DetailStatusClass(q.data[1].status)]

\* a page of the orders is shown, and the document is not being replaced
\* by the one the 401 handler asked for
OrdersLive(mounted) ==
    /\ ordersPage.mounted \in mounted
    /\ location # "/login"

pageStateUnchanged ==
    /\ formsUnchanged
    /\ productsUnchanged
    /\ UNCHANGED <<opener, edits>>

ordersFrame ==
    /\ UNCHANGED <<apiClient, allVariants, table>>
    /\ UNCHANGED <<localStorage, inflight, since401>>
    /\ pageStateUnchanged

\* onChange of the filter select: setStatusFilter(e.target.value)
setStatusFilter ==
    /\ OrdersLive({"orders"})
    /\ \E f \in Filters \ {ordersPage.statusFilter}, fresh \in BOOLEAN :
          LET q == ordersPage.queries[f]
              observed == Subscribed(q, ListRequest(f), fresh) IN
          /\ ordersPage' = [ordersPage EXCEPT !.statusFilter = f,
                                              !.queries[f] = observed]
          /\ last' = [op |-> "ui", fetches |-> StartedBy(q, observed)]
    /\ UNCHANGED <<location, page>>
    /\ ordersFrame

\* View button of a row: navigate(`/orders/${o.id}`); OrderDetailPage mounts
\* (the detail of an order viewed earlier is not followed)
viewOrder ==
    /\ OrdersLive({"orders"})
    /\ Has(OrdersShown, "rows")
    /\ \E i \in 1..Len(OrdersShown.rows), fresh \in BOOLEAN :
          LET id == OrdersShown.rows[i].id
              q == IF ordersPage.viewed = id THEN ordersPage.detail ELSE NewQuery
              observed == Subscribed(q, DetailRequest(id), fresh) IN
          /\ ordersPage' = [ordersPage EXCEPT !.mounted = "order-detail",
                                              !.viewed = id,
                                              !.detail = observed]
          /\ location' = "/orders/" \o id
          /\ last' = [op |-> "ui", fetches |-> StartedBy(q, observed)]
    /\ page' = "order-detail"
    /\ ordersFrame

\* Back button of OrderDetailPage: navigate('/orders'); OrdersPage mounts
\* with useState('')
backToOrders ==
    /\ OrdersLive({"order-detail"})
    /\ \E fresh \in BOOLEAN :
          LET q == ordersPage.queries[""]
              observed == Subscribed(q, ListRequest(""), fresh) IN
          /\ ordersPage' = [ordersPage EXCEPT !.mounted = "orders",
                                              !.statusFilter = "",
                                              !.queries[""] = observed]
          /\ last' = [op |-> "ui", fetches |-> StartedBy(q, observed)]
    /\ location' = "/orders"
    /\ page' = "orders"
    /\ ordersFrame

\* the queries of the orders pages: the lists by filter, and the detail
OrdersKeys == {<<"orders", f>> : f \in Filters} \cup {<<"order">>}

QueryAt(key) ==
    IF key[1] = "orders" THEN ordersPage.queries[key[2]] ELSE ordersPage.detail

KeyOfCurrent(key, statusFilter) ==
    IF key[1] = "orders" THEN <<"orders", statusFilter>> ELSE key

\* the key the query client keeps a result under: the key of the query
\* whose query function made the request
KeyOf(key, statusFilter) == key

\* the state of the query at key becomes q
Stored(key, q) ==
    IF key[1] = "orders"
    THEN ordersPage' = [ordersPage EXCEPT !.queries[key[2]] = q]
    ELSE ordersPage' = [ordersPage EXCEPT !.detail = q]

\* what GET /orders or GET /orders/{id} returns
Answered(config) ==
    IF Len(config.url) = 1
    THEN Served(IF Has(config, "params") THEN config.params ELSE EmptyObj)
    ELSE LET IsIt(order) == order.id = config.url[2] IN
         SelectSeq(ServerOrders, IsIt)

\* a 2xx answer to a running request: the data is the query's
OrdersOk ==
    /\ OrdersLive({"orders", "order-detail"})
    /\ \E key \in OrdersKeys :
          LET q == QueryAt(key) IN
          /\ q.phase = "fetching"
          /\ Stored(KeyOf(key, ordersPage.statusFilter),
                    [hasData |-> TRUE, data |-> Answered(q.request),
                     params |-> (IF Has(q.request, "params")
                                 THEN q.request.params ELSE EmptyObj),
                     phase |-> "idle", request |-> EmptyObj,
                     failureCount |-> 0, error |-> FALSE])
          /\ last' = [op |-> "settle", kind |-> "query", status |-> "success"]
    /\ UNCHANGED <<location, page>>
    /\ ordersFrame

\* an error answer: the interceptor handles a 401, the query client retries
\* or the query is in its error state (its data, if any, stays)
OrdersError ==
    /\ OrdersLive({"orders", "order-detail"})
    /\ \E key \in OrdersKeys, e \in Errors :
          LET q == QueryAt(key)
              retried == q.failureCount < Retries("query") IN
          /\ q.phase = "fetching"
          /\ localStorage' = OnRejectedStorage(e, localStorage)
          /\ location' = OnRejectedLocation(e, location)
          /\ since401' = (since401 \/ Is401(e))
          /\ Stored(key, [q EXCEPT !.phase = IF retried THEN "backoff" ELSE "idle",
                                   !.failureCount = @ + 1,
                                   !.error = ~retried,
                                   !.request = IF retried THEN @ ELSE EmptyObj])
          /\ last' = [op |-> "settle", kind |-> "query",
                      status |-> IF retried THEN "retrying" ELSE "error"]
    /\ UNCHANGED <<apiClient, allVariants, table>>
    /\ UNCHANGED <<inflight, page>>
    /\ pageStateUnchanged

\* the retry timer fires: the query function runs again
OrdersRetry ==
    /\ OrdersLive({"orders", "order-detail"})
    /\ \E key \in OrdersKeys :
          LET q == QueryAt(key)
              config == RequestInterceptor(BareConfig(q.request), localStorage) IN
          /\ q.phase = "backoff"
          /\ Stored(key, [q EXCEPT !.phase = "fetching", !.request = config])
          /\ last' = [op |-> "ui", fetches |-> {config}]
    /\ UNCHANGED <<location, page>>
    /\ ordersFrame

\* the application is loaded at '/orders': OrdersPage mounts and fetches
InitOrders ==
    /\ localStorage = [admin_token |-> "tokA"]
    /\ location = "/orders"
    /\ inflight = EmptyBag
    /\ since401 = FALSE
    /\ edits = 0
    /\ Mounted("orders")
    /\ apiClient = axios_create("client", EmptyObj)
    /\ allVariants = [status |-> "idle"]
    /\ table = NoTable
    /\ ordersPage =
          [mounted |-> "orders", statusFilter |-> "", viewed |-> "",
           detail |-> NewQuery,
           queries |-> [f \in Filters |->
                           IF f = "" THEN Fetching(NewQuery, ListRequest(""))
                           ELSE NewQuery]]
    /\ last = [op |-> "load", path |-> "/orders"]

NextOrders ==
    \/ setStatusFilter
    \/ viewOrder
    \/ backToOrders
    \/ OrdersOk
    \/ OrdersError
    \/ OrdersRetry
    \/ Load

SpecOrders == InitOrders /\ [][NextOrders]_vars

---------------------------------------------------------------------------
(* Properties of the orders pages *)

\* C25: the badge class OrderDetailPage shows for an order of one of the
\* five statuses is the class OrdersPage.getStatusClass gives that status.
C25_SameBadgeClass ==
    (ordersPage.mounted = "order-detail" /\ Has(DetailShown, "class")
        /\ DetailShown.status \in
              {"pending", "accepted", "fulfilled", "rejected", "cancelled"}) =>
        DetailShown.class = getStatusClass(DetailShown.status)

\* the detail of the accepted order is shown
C25_Witness ==
    /\ ordersPage.mounted = "order-detail"
    /\ Has(DetailShown, "class")
    /\ DetailShown.status = "accepted"

\* the request of a list query carries status=<filter> exactly when the
\* filter is not '', and the data of a list query was fetched with it
ByFilter(f, config) ==
    IF f = "" THEN ~Has(config, "params")
    ELSE Has(config, "params") /\ config.params = [status |-> f]

KeyedByFilter ==
    \A f \in Filters :
        LET q == ordersPage.queries[f] IN
        /\ q.phase # "idle" => ByFilter(f, q.request)
        /\ q.hasData =>
              q.params = (IF f = "" THEN EmptyObj ELSE [status |-> f])

\* the rows shown are the orders cached for the current filter
ShowsCached ==
    LET q == CurrentQuery IN
    /\ Has(OrdersShown, "rows")
    /\ [i \in 1..Len(OrdersShown.rows) |-> OrdersShown.rows[i].id]
          = [i \in 1..Len(q.data) |-> q.data[i].id]
    /\ ordersPage.statusFilter # "" =>
          \A i \in 1..Len(OrdersShown.rows) :
              OrdersShown.rows[i].status = ordersPage.statusFilter

\* C26 as stated: requests and cache entries go by the filter, and the table
\* shows the orders cached for the current filter, or the loading indicator
\* when none are cached.
C26_ShowsCurrentOrLoading ==
    ordersPage.mounted = "orders" =>
        /\ KeyedByFilter
        /\ IF CurrentQuery.hasData THEN ShowsCached
           ELSE OrdersShown = [loading |-> "Loading..."]

\* C26: requests and cache entries go by the filter, and the table shows the
\* orders cached for the current filter; when none are cached it shows the
\* loading indicator until the fetch has failed, and no order after that.
C26_ShowsCurrentOrNothing ==
    ordersPage.mounted = "orders" =>
        /\ KeyedByFilter
        /\ IF CurrentQuery.hasData THEN ShowsCached
           ELSE IF CurrentQuery.error
           THEN OrdersShown = [rows |-> <<>>, empty |-> TRUE]
           ELSE /\ OrdersShown = [loading |-> "Loading..."]
                /\ CurrentQuery.phase # "idle"

\* the answer for 'pending' is shown while the request for all statuses,
\* sent before it, is still running
C26_Witness ==
    /\ ordersPage.mounted = "orders"
    /\ ordersPage.statusFilter = "pending"
    /\ CurrentQuery.hasData
    /\ Len(OrdersShown.rows) = 1
    /\ OrdersShown.rows[1].status = "pending"
    /\ ordersPage.queries[""].phase = "fetching"
    /\ ~ordersPage.queries[""].hasData

====
